---- MODULE Spec2Model ----
(***************************************************************************)
(* Granite headless platform (application_headless.cpp).                   *)
(*                                                                         *)
(* Two levels of the same program are modelled.                            *)
(*                                                                         *)
(*  - SpecWorker: one FrameWorker object, statement by statement, with its *)
(*    mutex (cond_lock), its condition variable (cond), its background     *)
(*    thread (thread_loop) and the thread that calls wait(), set_work()    *)
(*    and the destructor.                                                  *)
(*                                                                         *)
(*  - Spec: WSIPlatformHeadless with its ring of SwapchainImages slots,    *)
(*    one FrameWorker per slot, the device (copy submissions and fences)   *)
(*    and the thread that drives begin_frame / run_frame / end_frame.      *)
(*    In this level every critical section of FrameWorker is one step and  *)
(*    a blocked cond.wait is a disabled step.                              *)
(***************************************************************************)
EXTENDS Integers, Sequences, FiniteSets, TLC

(***************************************************************************)
(* Bounds of the model.                                                    *)
(***************************************************************************)
\* number of set_work calls made on the single FrameWorker of SpecWorker
MaxJobs == 3
\* number of begin_frame / end_frame cycles the driving thread starts in Spec
MaxFrames == 5
\* number of set_next_readback calls the driving thread makes in Spec
MaxReadbacks == 1
\* the largest frame budget (--frames) main is run with in SpecMain
MaxBudget == 3
\* the largest number of pixels (width * height) of a buffer in SpecPixels
MaxPixels == 3
\* number of times the fix-up loop is run over the same buffer in SpecPixels
MaxPasses == 2

(***************************************************************************)
(* Program constants.                                                      *)
(***************************************************************************)
\* enum { SwapchainImages = 4 }, line 404
SwapchainImages == 4
Slots == 0 .. (SwapchainImages - 1)

(***************************************************************************)
(* State.                                                                  *)
(***************************************************************************)
VARIABLES
  \* ---- FrameWorker (SpecWorker) ----
  working,      \* FrameWorker::working
  dead,         \* FrameWorker::dead
  func,         \* FrameWorker::func: the installed closure (0: empty)
  cond_lock,    \* FrameWorker::cond_lock: the thread holding the mutex, or NoThread
  cond,         \* FrameWorker::cond: the threads blocked in cond.wait
  at,           \* position of every thread in the FrameWorker code
  op,           \* the FrameWorker method the calling thread is inside
  slept,        \* whether the calling thread slept on cond in its current call
  installed,    \* number of closures written to func by set_work
  started,      \* number of closures the background thread began to run
  finished,     \* number of closures the background thread ran to the end
  running,      \* the closure the background thread is inside (0: none)
  \* ---- WSIPlatformHeadless (Spec) ----
  index,               \* WSIPlatformHeadless::index
  frames,              \* WSIPlatformHeadless::frames
  png_readback,        \* WSIPlatformHeadless::png_readback ("": empty)
  next_readback_cb,    \* WSIPlatformHeadless::next_readback_cb
  swapchain_images,    \* per slot, the frame last rendered into the image
  readback_buffers,    \* per slot, the staging buffer: its data, whether mapped
  acquire_semaphore,   \* per slot, the stored hand-off semaphore
  readback_fence,      \* per slot, the fence of the last copy submission
  worker_threads,      \* per slot, the FrameWorker: working, dead, func, at
  latched,             \* the latched ApplicationLifecycleEvents
  \* ---- the collaborators ----
  pc,                  \* where the driving thread is
  wi,                  \* the position of its loop over worker_threads
  in_dtor,             \* whether it is inside ~WSIPlatformHeadless
  external_frame,      \* what begin_frame last passed to wsi.set_external_frame
  release,             \* the release semaphore the WSI holds after run_frame
  gpu,                 \* per slot, the copy the device has in flight (-1: none)
  files,               \* what stbi_write_png was called with: path and pixels
  \* ---- history ----
  nwrites,             \* number of stbi_write_png calls
  dispatched,          \* per slot, number of set_work calls completed
  retired,             \* per slot, number of jobs run to the end
  had_release,         \* the frames whose end_frame got a valid release semaphore
  readback_calls,      \* number of set_next_readback calls
  \* ---- main (SpecMain) ----
  main_pc,             \* where main is
  args,                \* main's Args after parsing, and what the run meets
  max_frames,          \* WSIPlatformHeadless::max_frames
  rendered_frames,     \* main's rendered_frames
  hw_counter_handle,   \* WSIPlatformHeadless::hw_counter_handle (FALSE: nullptr)
  has_start_counters,  \* main's has_start_counters
  has_end_counters,    \* main's has_end_counters
  start_counter,       \* main's start_counter
  end_counter,         \* main's end_counter
  doc,                 \* the members of the stat report, once it is written
  exit_code,           \* how the process ended
  setup,               \* how far main's setup got, or what stopped it
  hw_setup,            \* how setup_hw_counter_lib went
  samples,             \* number of hw_counter_iface.wait_sample calls
  \* ---- a mapped staging buffer (SpecPixels) ----
  width,               \* WSIPlatformHeadless::width
  height,              \* WSIPlatformHeadless::height
  ptr,                 \* the pixels behind ptr, one 32-bit word each
  fix_i,               \* the loop variable i of the fix-up loop
  copied,              \* the pixels as the device copied them
  passes,              \* number of fix-up loops run to the end on the buffer
  \* ---- the lifecycle events of a platform (SpecLifecycle) ----
  life_pc,             \* where the platform's owner is: constructor, release, ...
  step,                \* the next lifecycle statement of that function (0: none)
  kind,                \* which platform: WSIPlatformHeadless or CustomSurface
  published,           \* the events enqueued since the platform's constructor began
  platforms,           \* number of platform constructions attempted
  releases,            \* number of Paused/Stopped rounds begun on the platform
  \* ---- application_main of the custom surface (SpecCustom) ----
  custom_pc,           \* where application_main is
  custom_args,         \* application_main's args after parsing
  run_frames,          \* application_main's run_frames
  custom_exit,         \* what application_main returned, and where
  app,                 \* whether create_application was called, and its result
  library,             \* the symbols WSIPlatformCustomSurface::library resolves
  extensions,          \* what get_instance_extensions returned
  surface              \* what create_surface returned

pipeVars == <<index, frames, png_readback, next_readback_cb, swapchain_images,
              readback_buffers, acquire_semaphore, readback_fence,
              worker_threads, latched, pc, wi, in_dtor, external_frame,
              release, gpu, files, nwrites, dispatched, retired, had_release,
              readback_calls>>

workerVars == <<working, dead, func, cond_lock, cond, at, op, slept,
                installed, started, finished, running>>

mainVars == <<main_pc, args, max_frames, rendered_frames, hw_counter_handle,
              has_start_counters, has_end_counters, start_counter,
              end_counter, doc, exit_code, setup, hw_setup, samples>>

pixelVars == <<width, height, ptr, fix_i, copied, passes>>

lifeVars == <<life_pc, step, kind, published, platforms, releases>>

customVars == <<custom_pc, custom_args, run_frames, custom_exit, app, library,
                extensions, surface>>

vars == <<workerVars, pipeVars, mainVars, pixelVars, lifeVars, customVars>>

\* what a step of a FrameWorker alone, and a step of the platform, leave alone
notWorkerVars == <<pipeVars, mainVars, pixelVars, lifeVars, customVars>>
notPipeVars == <<workerVars, mainVars, pixelVars, lifeVars, customVars>>

NoThread == "none"
Thr == "thr"                 \* FrameWorker::thr, running thread_loop
Main == "main"               \* the thread that owns the FrameWorker
Threads == {Thr, Main}
Callers == {Main}

(***************************************************************************)
(* std::mutex and std::condition_variable.                                 *)
(***************************************************************************)
\* where a thread continues after leaving cond.wait's sleep: it takes the
\* mutex again and evaluates its predicate again
Relock(t) == IF t = Thr THEN "loop_relock" ELSE "wait_relock"

\* cond.notify_one(): wakes one of the sleeping threads, any of them; nothing
\* happens when nobody sleeps.  The result is the set of threads woken.
NotifyOne_none == {{}}
NotifyOne == IF cond = {} THEN {{}} ELSE {{t} : t \in cond}

\* the positions after a step of thread t that also wakes the threads in n
Moved(t, to, n) ==
  [x \in DOMAIN at |-> IF x = t THEN to
                     ELSE IF x \in n THEN Relock(x)
                     ELSE at[x]]

Goto(t, to) == at' = [at EXCEPT ![t] = to]

Lock(t) == cond_lock = NoThread /\ cond_lock' = t
Unlock(t) == cond_lock = t /\ cond_lock' = NoThread

\* a spurious wake-up, which std::condition_variable::wait permits: a
\* sleeping thread leaves the sleep without any notify
SpuriousWake(t) ==
  /\ t \in cond
  /\ cond' = cond \ {t}
  /\ Goto(t, Relock(t))
  /\ UNCHANGED <<working, dead, func, cond_lock, op, slept, installed, started,
                 finished, running>>
  /\ UNCHANGED notWorkerVars

(***************************************************************************)
(* FrameWorker::wait, lines 74-80.                                         *)
(***************************************************************************)
\* the predicate of wait's cond.wait, lines 77-79
WaitPredicate_always == TRUE
WaitPredicate == ~working

\* a thread at rest calls wait()
Call_wait(c) ==
  /\ at[c] = "idle"
  /\ Goto(c, "wait_lock")
  /\ op' = [op EXCEPT ![c] = "wait"]
  /\ slept' = [slept EXCEPT ![c] = FALSE]
  /\ UNCHANGED <<working, dead, func, cond_lock, cond, installed, started,
                 finished, running>>
  /\ UNCHANGED notWorkerVars

\* line 76: unique_lock<mutex> u{cond_lock}; and the re-lock inside cond.wait
wait_lock(c) ==
  /\ at[c] \in {"wait_lock", "wait_relock"}
  /\ Lock(c)
  /\ Goto(c, "wait_pred")
  /\ UNCHANGED <<working, dead, func, cond, op, slept, installed, started,
                 finished, running>>
  /\ UNCHANGED notWorkerVars

\* lines 77-79: cond.wait(u, pred): with the predicate true the wait is over,
\* otherwise the mutex is released and the thread sleeps on cond
wait_pred(c) ==
  /\ at[c] = "wait_pred"
  /\ cond_lock = c
  /\ IF WaitPredicate
       THEN /\ Goto(c, "wait_unlock")
            /\ UNCHANGED <<cond_lock, cond, slept>>
       ELSE /\ Unlock(c)
            /\ cond' = cond \cup {c}
            /\ slept' = [slept EXCEPT ![c] = TRUE]
            /\ Goto(c, "wait_sleep")
  /\ UNCHANGED <<working, dead, func, op, installed, started, finished,
                 running>>
  /\ UNCHANGED notWorkerVars

\* line 80: u leaves scope, wait() returns (to the caller, or into set_work)
wait_return(c) ==
  /\ at[c] = "wait_unlock"
  /\ Unlock(c)
  /\ Goto(c, IF op[c] = "set_work" THEN "set_func" ELSE "idle")
  /\ op' = [op EXCEPT ![c] = IF op[c] = "set_work" THEN "set_work" ELSE "none"]
  /\ UNCHANGED <<slept, working, dead, func, cond, installed, started, finished,
                 running>>
  /\ UNCHANGED notWorkerVars

(***************************************************************************)
(* FrameWorker::set_work, lines 82-89.                                     *)
(***************************************************************************)
\* where set_work starts: line 84, wait()
set_work_entry_nowait == "set_func"
set_work_entry == "wait_lock"

\* a thread at rest calls set_work(work); the closures are numbered 1, 2, ...
Call_set_work(c) ==
  /\ at[c] = "idle"
  /\ installed < MaxJobs
  /\ Goto(c, set_work_entry)
  /\ op' = [op EXCEPT ![c] = "set_work"]
  /\ slept' = [slept EXCEPT ![c] = FALSE]
  /\ UNCHANGED <<working, dead, func, cond_lock, cond, installed, started,
                 finished, running>>
  /\ UNCHANGED notWorkerVars

\* line 85: func = move(work), without the mutex
set_work_func(c) ==
  /\ at[c] = "set_func"
  /\ func' = installed + 1
  /\ installed' = installed + 1
  /\ Goto(c, "set_lock")
  /\ UNCHANGED <<working, dead, cond_lock, cond, op, slept, started, finished,
                 running>>
  /\ UNCHANGED notWorkerVars

\* line 86: unique_lock<mutex> u{cond_lock}
set_work_lock(c) ==
  /\ at[c] = "set_lock"
  /\ Lock(c)
  /\ Goto(c, "set_working")
  /\ UNCHANGED <<working, dead, func, cond, op, slept, installed, started,
                 finished, running>>
  /\ UNCHANGED notWorkerVars

\* lines 87-88: working = true; cond.notify_one()
set_work_notify(c) ==
  /\ at[c] = "set_working"
  /\ cond_lock = c
  /\ working' = TRUE
  /\ \E n \in NotifyOne :
       /\ cond' = cond \ n
       /\ at' = Moved(c, "set_unlock", n)
  /\ UNCHANGED <<dead, func, cond_lock, op, slept, installed, started, finished,
                 running>>
  /\ UNCHANGED notWorkerVars

\* line 89: u leaves scope, set_work returns
set_work_return(c) ==
  /\ at[c] = "set_unlock"
  /\ Unlock(c)
  /\ Goto(c, "idle")
  /\ op' = [op EXCEPT ![c] = "none"]
  /\ UNCHANGED <<slept, working, dead, func, cond, installed, started, finished,
                 running>>
  /\ UNCHANGED notWorkerVars

(***************************************************************************)
(* FrameWorker::thread_loop, lines 91-112.                                 *)
(***************************************************************************)
\* line 96: unique_lock<mutex> u{cond_lock}; and the re-lock inside cond.wait
loop_lock ==
  /\ at[Thr] \in {"loop_lock", "loop_relock"}
  /\ Lock(Thr)
  /\ Goto(Thr, "loop_pred")
  /\ UNCHANGED <<working, dead, func, cond, op, slept, installed, started,
                 finished, running>>
  /\ UNCHANGED notWorkerVars

\* lines 97-99: cond.wait(u, working || dead)
loop_pred_nowait ==
  /\ at[Thr] = "loop_pred"
  /\ cond_lock = Thr
  /\ Goto(Thr, "loop_dead")
  /\ UNCHANGED <<cond_lock, cond>>
  /\ UNCHANGED <<working, dead, func, op, slept, installed, started, finished,
                 running>>
  /\ UNCHANGED notWorkerVars

loop_pred ==
  /\ at[Thr] = "loop_pred"
  /\ cond_lock = Thr
  /\ IF working \/ dead
       THEN /\ Goto(Thr, "loop_dead")
            /\ UNCHANGED <<cond_lock, cond>>
       ELSE /\ Unlock(Thr)
            /\ cond' = cond \cup {Thr}
            /\ Goto(Thr, "loop_sleep")
  /\ UNCHANGED <<working, dead, func, op, slept, installed, started, finished,
                 running>>
  /\ UNCHANGED notWorkerVars

\* lines 101-103: if (dead) return; and u leaves scope either way
loop_dead ==
  /\ at[Thr] = "loop_dead"
  /\ Unlock(Thr)
  /\ Goto(Thr, IF dead THEN "exited" ELSE "loop_func")
  /\ UNCHANGED <<working, dead, func, cond, op, slept, installed, started,
                 finished, running>>
  /\ UNCHANGED notWorkerVars

\* lines 105-106: if (func) func(): the closure is entered
loop_func ==
  /\ at[Thr] = "loop_func"
  /\ IF func # 0
       THEN /\ running' = func
            /\ started' = started + 1
            /\ Goto(Thr, "in_func")
       ELSE /\ Goto(Thr, "loop_done")
            /\ UNCHANGED <<running, started>>
  /\ UNCHANGED <<working, dead, func, cond_lock, cond, op, slept, installed,
                 finished>>
  /\ UNCHANGED notWorkerVars

\* line 106: func() returns
func_return ==
  /\ at[Thr] = "in_func"
  /\ running' = 0
  /\ finished' = finished + 1
  /\ Goto(Thr, "loop_done")
  /\ UNCHANGED <<working, dead, func, cond_lock, cond, op, slept, installed,
                 started>>
  /\ UNCHANGED notWorkerVars

\* line 108: lock_guard<mutex> holder{cond_lock}
loop_done_lock ==
  /\ at[Thr] = "loop_done"
  /\ Lock(Thr)
  /\ Goto(Thr, "loop_clear")
  /\ UNCHANGED <<working, dead, func, cond, op, slept, installed, started,
                 finished, running>>
  /\ UNCHANGED notWorkerVars

\* lines 109-111: working = false; cond.notify_one(); holder leaves scope
loop_clear_nonotify ==
  /\ at[Thr] = "loop_clear"
  /\ Unlock(Thr)
  /\ working' = FALSE
  /\ Goto(Thr, "loop_lock")
  /\ UNCHANGED <<dead, func, cond, op, slept, installed, started, finished, running>>
  /\ UNCHANGED notWorkerVars

loop_clear ==
  /\ at[Thr] = "loop_clear"
  /\ Unlock(Thr)
  /\ working' = FALSE
  /\ \E n \in NotifyOne :
       /\ cond' = cond \ n
       /\ at' = Moved(Thr, "loop_lock", n)
  /\ UNCHANGED <<dead, func, op, slept, installed, started, finished, running>>
  /\ UNCHANGED notWorkerVars

thread_loop ==
  \/ loop_lock
  \/ loop_pred
  \/ loop_dead
  \/ loop_func
  \/ func_return
  \/ loop_done_lock
  \/ loop_clear

(***************************************************************************)
(* FrameWorker::~FrameWorker, lines 114-124.                               *)
(***************************************************************************)
\* the owner destroys the FrameWorker
Call_dtor(c) ==
  /\ at[c] = "idle"
  /\ Goto(c, "dtor_lock")
  /\ op' = [op EXCEPT ![c] = "dtor"]
  /\ UNCHANGED <<slept, working, dead, func, cond_lock, cond, installed, started,
                 finished, running>>
  /\ UNCHANGED notWorkerVars

\* line 117: lock_guard<mutex> holder{cond_lock}
dtor_lock(c) ==
  /\ at[c] = "dtor_lock"
  /\ Lock(c)
  /\ Goto(c, "dtor_dead")
  /\ UNCHANGED <<working, dead, func, cond, op, slept, installed, started,
                 finished, running>>
  /\ UNCHANGED notWorkerVars

\* lines 118-120: dead = true; cond.notify_one(); holder leaves scope
dtor_dead(c) ==
  /\ at[c] = "dtor_dead"
  /\ Unlock(c)
  /\ dead' = TRUE
  /\ \E n \in NotifyOne :
       /\ cond' = cond \ n
       /\ at' = Moved(c, "join", n)
  /\ UNCHANGED <<working, func, op, slept, installed, started, finished, running>>
  /\ UNCHANGED notWorkerVars

\* lines 122-123: thr.join() returns when thread_loop has returned
dtor_join(c) ==
  /\ at[c] = "join"
  /\ at[Thr] = "exited"
  /\ Goto(c, "destroyed")
  /\ UNCHANGED <<working, dead, func, cond_lock, cond, op, slept, installed,
                 started, finished, running>>
  /\ UNCHANGED notWorkerVars

(***************************************************************************)
(* WSIPlatformHeadless: values.                                            *)
(***************************************************************************)
\* an empty std::function / Semaphore / Fence, and the ones the code makes
NoCb == [set |-> FALSE, path |-> ""]
Cb(path) == [set |-> TRUE, path |-> path]
NoFunc == [kind |-> "none", path |-> "", frame |-> 0, index |-> 0]
NullSemaphore == [kind |-> "null", frame |-> 0]
NullFence == [state |-> "null", frame |-> 0]
\* a std::vector after clear()
Cleared == [i \in {} |-> 0]

\* the paths --png-reference-path / set_next_readback is given
Paths == {"ref.png"}
\* the values of --png-path: not given, or a base name
Bases == {"", "base"}

\* the closure of lines 297-299: [cb = next_readback_cb, index = this->index]
ReadbackFunc(cb, i) == [kind |-> "readback", path |-> cb.path, frame |-> 0, index |-> i]
\* the closure of lines 319-321: [this, index = this->index, frame = this->frames]
DumpFunc(f, i) == [kind |-> "dump", path |-> "", frame |-> f, index |-> i]

\* the decimal digits of an unsigned number, most significant first
RECURSIVE Digits(_)
Digits(n) ==
  IF n < 10 THEN << <<"0", "1", "2", "3", "4", "5", "6", "7", "8", "9">>[n + 1] >>
  ELSE Digits(n \div 10) \o Digits(n % 10)

\* zero padding on the left up to a minimum width
RECURSIVE Pad(_, _)
Pad(s, w) == IF Len(s) >= w THEN s ELSE Pad(<<"0">> \o s, w)

\* sprintf(buffer, "_%05u.png", frame), line 428
Format05u_nopad(frame) == <<"_">> \o Digits(frame) \o <<".png">>
Format05u(frame) == <<"_">> \o Pad(Digits(frame), 5) \o <<".png">>

\* auto path = png_readback + buffer, line 429
DumpPath(base, frame) == <<base>> \o Format05u(frame)

\* the path a closure writes to
FuncPath(fn) == IF fn.kind = "readback" THEN <<fn.path>>
                ELSE DumpPath(png_readback, fn.frame)

(***************************************************************************)
(* FrameWorker as WSIPlatformHeadless uses it: one step per critical       *)
(* section; a cond.wait whose predicate is false is a step that cannot be  *)
(* taken.                                                                  *)
(***************************************************************************)
\* FrameWorker::wait, lines 74-80, returns: its predicate !working holds
wait(i) == ~worker_threads[i].working

\* FrameWorker::thread_loop, lines 96-102: dead is set, the predicate
\* working || dead is true and the thread returns (dead is tested first)
worker_exit(i) ==
  /\ worker_threads[i].at = "wait"
  /\ worker_threads[i].dead
  /\ worker_threads' = [worker_threads EXCEPT ![i].at = "exited"]
  /\ UNCHANGED <<index, frames, png_readback, next_readback_cb,
                 swapchain_images, readback_buffers, acquire_semaphore,
                 readback_fence, latched, pc, wi, in_dtor, external_frame,
                 release, gpu, files, nwrites, dispatched, retired,
                 had_release, readback_calls, notPipeVars>>

\* FrameWorker::thread_loop, lines 96-106: working is set and dead is not,
\* the thread leaves cond.wait and enters func (never empty here); then
\* dump_frame lines 418-419 and the readback callback lines 339-340:
\* readback_fence[index]->wait(); readback_fence[index].reset().  The wait
\* returns when the device has finished the copy submitted with the fence
\* (line 295 / 317): the copy is in flight until then, and the staging
\* buffer then holds the image that was copied.
job_fence_nowait(i) ==
  /\ worker_threads[i].at = "wait"
  /\ worker_threads[i].working
  /\ ~worker_threads[i].dead
  /\ worker_threads' = [worker_threads EXCEPT ![i].at = "map"]
  /\ UNCHANGED <<index, frames, png_readback, next_readback_cb,
                 swapchain_images, readback_buffers, acquire_semaphore,
                 readback_fence, latched, pc, wi, in_dtor, external_frame,
                 release, gpu, files, nwrites, dispatched, retired,
                 had_release, readback_calls, notPipeVars>>

job_fence_wait(i) ==
  /\ worker_threads[i].at = "wait"
  /\ worker_threads[i].working
  /\ ~worker_threads[i].dead
  /\ worker_threads[i].func.kind # "none"
  /\ LET k == worker_threads[i].func.index IN
       /\ k \in DOMAIN readback_fence
       /\ readback_fence[k].state = "pending"
       /\ gpu[k] = readback_fence[k].frame
       /\ readback_buffers' = [readback_buffers EXCEPT ![k].data = gpu[k]]
       /\ gpu' = [gpu EXCEPT ![k] = -1]
       /\ readback_fence' = [readback_fence EXCEPT ![k] = NullFence]
  /\ worker_threads' = [worker_threads EXCEPT ![i].at = "map"]
  /\ UNCHANGED <<index, frames, png_readback, next_readback_cb,
                 swapchain_images, acquire_semaphore, latched, pc, wi,
                 in_dtor, external_frame, release, files, nwrites,
                 dispatched, retired, had_release, readback_calls, notPipeVars>>

\* lines 423-425 and 342-344: map_host_buffer, then the alpha fix-up
job_map(i) ==
  /\ worker_threads[i].at = "map"
  /\ LET k == worker_threads[i].func.index IN
       /\ k \in DOMAIN readback_buffers
       /\ readback_buffers' = [readback_buffers EXCEPT ![k].mapped = TRUE]
  /\ worker_threads' = [worker_threads EXCEPT ![i].at = "write"]
  /\ UNCHANGED <<index, frames, png_readback, next_readback_cb,
                 swapchain_images, acquire_semaphore, readback_fence,
                 latched, pc, wi, in_dtor, external_frame, release, gpu,
                 files, nwrites, dispatched, retired, had_release,
                 readback_calls, notPipeVars>>

\* lines 427-432 and 346-348: stbi_write_png(path, ..., ptr, ...), then
\* unmap_host_buffer; the closure returns
job_write_shared(i) ==
  /\ worker_threads[i].at = "write"
  /\ LET k == index IN
       /\ k \in DOMAIN readback_buffers
       /\ files' = files \cup {[path |-> IF worker_threads[i].func.kind = "readback"
                                           THEN <<next_readback_cb.path>>
                                           ELSE DumpPath(png_readback, frames),
                                data |-> readback_buffers[k].data]}
       /\ readback_buffers' = [readback_buffers EXCEPT ![k].mapped = FALSE]
  /\ nwrites' = nwrites + 1
  /\ worker_threads' = [worker_threads EXCEPT ![i].at = "done"]
  /\ UNCHANGED <<index, frames, png_readback, next_readback_cb,
                 swapchain_images, acquire_semaphore, readback_fence,
                 latched, pc, wi, in_dtor, external_frame, release, gpu,
                 dispatched, retired, had_release, readback_calls, notPipeVars>>

job_write(i) ==
  /\ worker_threads[i].at = "write"
  /\ LET k == worker_threads[i].func.index IN
       /\ k \in DOMAIN readback_buffers
       /\ files' = files \cup {[path |-> FuncPath(worker_threads[i].func),
                                data |-> readback_buffers[k].data]}
       /\ readback_buffers' = [readback_buffers EXCEPT ![k].mapped = FALSE]
  /\ nwrites' = nwrites + 1
  /\ worker_threads' = [worker_threads EXCEPT ![i].at = "done"]
  /\ UNCHANGED <<index, frames, png_readback, next_readback_cb,
                 swapchain_images, acquire_semaphore, readback_fence,
                 latched, pc, wi, in_dtor, external_frame, release, gpu,
                 dispatched, retired, had_release, readback_calls, notPipeVars>>

\* FrameWorker::thread_loop, lines 108-111: working = false; notify_one
worker_done(i) ==
  /\ worker_threads[i].at = "done"
  /\ worker_threads' = [worker_threads EXCEPT ![i].at = "wait",
                                              ![i].working = FALSE]
  /\ retired' = [retired EXCEPT ![i] = @ + 1]
  /\ UNCHANGED <<index, frames, png_readback, next_readback_cb,
                 swapchain_images, readback_buffers, acquire_semaphore,
                 readback_fence, latched, pc, wi, in_dtor, external_frame,
                 release, gpu, files, nwrites, dispatched, had_release,
                 readback_calls, notPipeVars>>

(***************************************************************************)
(* WSIPlatformHeadless::begin_frame, lines 258-264.                        *)
(***************************************************************************)
\* lines 260-262: wsi.set_external_frame(index, acquire_semaphore[index],
\* time_step); acquire_semaphore[index].reset()
BeginFrameCall_noreset ==
  /\ external_frame' = [index |-> index, semaphore |-> acquire_semaphore[index]]
  /\ acquire_semaphore' = acquire_semaphore
  /\ pc' = "begin_wait"

BeginFrameCall ==
  /\ external_frame' = [index |-> index, semaphore |-> acquire_semaphore[index]]
  /\ acquire_semaphore' = [acquire_semaphore EXCEPT ![index] = NullSemaphore]
  /\ pc' = "begin_wait"

\* begin_frame is called by the driving thread
begin_frame ==
  /\ pc = "idle"
  /\ frames < MaxFrames
  /\ BeginFrameCall
  /\ UNCHANGED <<index, frames, png_readback, next_readback_cb,
                 swapchain_images, readback_buffers, readback_fence,
                 worker_threads, latched, wi, in_dtor, release, gpu, files,
                 nwrites, dispatched, retired, had_release, readback_calls, notPipeVars>>

\* line 263: worker_threads[index]->wait() returns
begin_frame_nowait ==
  /\ pc = "begin_wait"
  /\ pc' = "run_frame"
  /\ UNCHANGED <<index, frames, png_readback, next_readback_cb,
                 swapchain_images, readback_buffers, acquire_semaphore,
                 readback_fence, worker_threads, latched, wi, in_dtor,
                 external_frame, release, gpu, files, nwrites, dispatched,
                 retired, had_release, readback_calls, notPipeVars>>

begin_frame_wait_other ==
  /\ pc = "begin_wait"
  /\ wait((index + 1) % SwapchainImages)
  /\ pc' = "run_frame"
  /\ UNCHANGED <<index, frames, png_readback, next_readback_cb,
                 swapchain_images, readback_buffers, acquire_semaphore,
                 readback_fence, worker_threads, latched, wi, in_dtor,
                 external_frame, release, gpu, files, nwrites, dispatched,
                 retired, had_release, readback_calls, notPipeVars>>

begin_frame_wait ==
  /\ pc = "begin_wait"
  /\ wait(index)
  /\ pc' = "run_frame"
  /\ UNCHANGED <<index, frames, png_readback, next_readback_cb,
                 swapchain_images, readback_buffers, acquire_semaphore,
                 readback_fence, worker_threads, latched, wi, in_dtor,
                 external_frame, release, gpu, files, nwrites, dispatched,
                 retired, had_release, readback_calls, notPipeVars>>

\* app->run_frame(), lines 559, 574, 622: the application renders the frame
\* into the image of the slot; the WSI then holds a release semaphore, or
\* none when the frame did not touch the swapchain image
run_frame ==
  /\ pc = "run_frame"
  /\ swapchain_images' = [swapchain_images EXCEPT ![index] = frames]
  /\ \E valid \in BOOLEAN :
       /\ release' = IF valid THEN [kind |-> "release", frame |-> frames]
                     ELSE NullSemaphore
  /\ pc' = "end_frame"
  /\ UNCHANGED <<index, frames, png_readback, next_readback_cb,
                 readback_buffers, acquire_semaphore, readback_fence,
                 worker_threads, latched, wi, in_dtor, external_frame, gpu,
                 files, nwrites, dispatched, retired, had_release,
                 readback_calls, notPipeVars>>

(***************************************************************************)
(* WSIPlatformHeadless::end_frame, lines 272-331.                          *)
(***************************************************************************)
\* line 278: release_semaphore && release_semaphore->get_semaphore() != VK_NULL_HANDLE
ReleaseValid == release.kind # "null"

\* line 280 and line 302: which of the branches of end_frame is taken
EndFrameBranch_dumpfirst ==
  IF ~ReleaseValid THEN "none"
  ELSE IF png_readback # "" THEN "dump"
  ELSE IF next_readback_cb.set THEN "explicit"
  ELSE "release"

EndFrameBranch_nocheck ==
  IF next_readback_cb.set THEN "explicit"
  ELSE IF png_readback # "" THEN "dump"
  ELSE "release"

EndFrameBranch ==
  IF ~ReleaseValid THEN "none"
  ELSE IF next_readback_cb.set THEN "explicit"
  ELSE IF png_readback # "" THEN "dump"
  ELSE "release"

\* lines 328-330: release_semaphore.reset(); index = (index + 1) %
\* SwapchainImages; frames++
EndFrameAdvance_nowrap ==
  /\ release' = NullSemaphore
  /\ index' = IF index + 1 < SwapchainImages THEN index + 1 ELSE index
  /\ frames' = frames + 1
  /\ pc' = "idle"

EndFrameAdvance ==
  /\ release' = NullSemaphore
  /\ index' = (index + 1) % SwapchainImages
  /\ frames' = frames + 1
  /\ pc' = "idle"

\* lines 276-295 / 302-317 / 323-326: up to device.submit, or the whole
\* call when no job is dispatched
end_frame ==
  /\ pc = "end_frame"
  /\ had_release' = IF ReleaseValid THEN had_release \cup {frames} ELSE had_release
  /\ IF EndFrameBranch \in {"explicit", "dump"}
       THEN \* copy_image_to_buffer; submit(cmd, &readback_fence[index], 1,
            \* &acquire_semaphore[index])
            /\ gpu' = [gpu EXCEPT ![index] = swapchain_images[index]]
            /\ readback_fence' = [readback_fence EXCEPT ![index] =
                  [state |-> "pending", frame |-> swapchain_images[index]]]
            /\ acquire_semaphore' = [acquire_semaphore EXCEPT ![index] =
                  [kind |-> "copy", frame |-> swapchain_images[index]]]
            /\ pc' = "set_work"
            /\ UNCHANGED <<release, index, frames>>
       ELSE /\ acquire_semaphore' =
                 IF EndFrameBranch = "release"
                   THEN [acquire_semaphore EXCEPT ![index] = release]
                   ELSE acquire_semaphore
            /\ EndFrameAdvance
            /\ UNCHANGED <<gpu, readback_fence>>
  /\ UNCHANGED <<png_readback, next_readback_cb, swapchain_images,
                 readback_buffers, worker_threads, latched, wi, in_dtor,
                 external_frame, files, nwrites, dispatched, retired,
                 readback_calls, notPipeVars>>

\* lines 297-300 / 319-321, then 328-330: set_work waits for the worker,
\* installs the closure and sets working; the pending request is cleared on
\* the explicit path
end_frame_set_work_noclear ==
  /\ pc = "set_work"
  /\ wait(index)
  /\ worker_threads' = [worker_threads EXCEPT
        ![index].func = IF EndFrameBranch = "explicit"
                          THEN ReadbackFunc(next_readback_cb, index)
                          ELSE DumpFunc(frames, index),
        ![index].working = TRUE]
  /\ dispatched' = [dispatched EXCEPT ![index] = @ + 1]
  /\ EndFrameAdvance
  /\ UNCHANGED <<png_readback, next_readback_cb, swapchain_images,
                 readback_buffers, acquire_semaphore, readback_fence,
                 latched, wi, in_dtor, external_frame, gpu, files, nwrites,
                 retired, had_release, readback_calls, notPipeVars>>

end_frame_set_work ==
  /\ pc = "set_work"
  /\ wait(index)
  /\ worker_threads' = [worker_threads EXCEPT
        ![index].func = IF EndFrameBranch = "explicit"
                          THEN ReadbackFunc(next_readback_cb, index)
                          ELSE DumpFunc(frames, index),
        ![index].working = TRUE]
  /\ next_readback_cb' = IF EndFrameBranch = "explicit" THEN NoCb
                         ELSE next_readback_cb
  /\ dispatched' = [dispatched EXCEPT ![index] = @ + 1]
  /\ EndFrameAdvance
  /\ UNCHANGED <<png_readback, swapchain_images, readback_buffers,
                 acquire_semaphore, readback_fence, latched, wi, in_dtor,
                 external_frame, gpu, files, nwrites, retired, had_release,
                 readback_calls, notPipeVars>>

(***************************************************************************)
(* WSIPlatformHeadless::set_next_readback, lines 333-350.                  *)
(***************************************************************************)
\* line 335: next_readback_cb = [this, path](unsigned index) { ... }
SetNextReadbackCall(path) ==
  /\ next_readback_cb' = Cb(path)
  /\ readback_calls' = readback_calls + 1

\* set_next_readback is called by the driving thread
set_next_readback ==
  /\ pc = "idle"
  /\ readback_calls < MaxReadbacks
  /\ \E path \in Paths : SetNextReadbackCall(path)
  /\ UNCHANGED <<index, frames, png_readback, swapchain_images,
                 readback_buffers, acquire_semaphore, readback_fence,
                 worker_threads, latched, pc, wi, in_dtor, external_frame,
                 release, gpu, files, nwrites, dispatched, retired,
                 had_release, notPipeVars>>

(***************************************************************************)
(* WSIPlatformHeadless::wait_threads, lines 352-356; the last statements   *)
(* of main, lines 626-627.                                                 *)
(***************************************************************************)
\* line 354: the loop over worker_threads starts
WaitThreadsCall ==
  /\ pc' = "wait_threads"
  /\ wi' = 0

\* p->wait_threads() is called (lines 563, 579, 626)
wait_threads ==
  /\ pc = "idle"
  /\ WaitThreadsCall
  /\ UNCHANGED <<index, frames, png_readback, next_readback_cb,
                 swapchain_images, readback_buffers, acquire_semaphore,
                 readback_fence, worker_threads, latched, in_dtor,
                 external_frame, release, gpu, files, nwrites, dispatched,
                 retired, had_release, readback_calls, notPipeVars>>

\* lines 354-355: thread->wait() returns for the next worker
wait_threads_next ==
  /\ pc = "wait_threads"
  /\ wi < SwapchainImages
  /\ wait(wi)
  /\ wi' = wi + 1
  /\ UNCHANGED <<index, frames, png_readback, next_readback_cb,
                 swapchain_images, readback_buffers, acquire_semaphore,
                 readback_fence, worker_threads, latched, pc, in_dtor,
                 external_frame, release, gpu, files, nwrites, dispatched,
                 retired, had_release, readback_calls, notPipeVars>>

\* line 356: wait_threads returns, to the frame loop or, when the call was
\* that of line 626, to main's return 0 of line 627
wait_threads_return ==
  /\ pc = "wait_threads"
  /\ wi = SwapchainImages
  /\ \E to \in {"idle", "returned"} : pc' = to
  /\ UNCHANGED <<index, frames, png_readback, next_readback_cb,
                 swapchain_images, readback_buffers, acquire_semaphore,
                 readback_fence, worker_threads, latched, wi, in_dtor,
                 external_frame, release, gpu, files, nwrites, dispatched,
                 retired, had_release, readback_calls, notPipeVars>>

(***************************************************************************)
(* WSIPlatformHeadless::release_resources, lines 150-164, and              *)
(* ~WSIPlatformHeadless, lines 143-148.                                    *)
(***************************************************************************)
\* release_resources is called by the WSI, or by the destructor (line 145)
\* once main has returned
release_resources ==
  /\ pc \in {"idle", "released", "returned"}
  /\ in_dtor' = (pc # "idle")
  /\ pc' = "release_wait"
  /\ wi' = 0
  /\ UNCHANGED <<index, frames, png_readback, next_readback_cb,
                 swapchain_images, readback_buffers, acquire_semaphore,
                 readback_fence, worker_threads, latched, external_frame,
                 release, gpu, files, nwrites, dispatched, retired,
                 had_release, readback_calls, notPipeVars>>

\* lines 152-153: thread->wait() returns for the next worker
release_resources_next_nowait ==
  /\ pc = "release_wait"
  /\ wi < SwapchainImages
  /\ wi' = wi + 1
  /\ UNCHANGED <<index, frames, png_readback, next_readback_cb,
                 swapchain_images, readback_buffers, acquire_semaphore,
                 readback_fence, worker_threads, latched, pc, in_dtor,
                 external_frame, release, gpu, files, nwrites, dispatched,
                 retired, had_release, readback_calls, notPipeVars>>

release_resources_next ==
  /\ pc = "release_wait"
  /\ wi < SwapchainImages
  /\ wait(wi)
  /\ wi' = wi + 1
  /\ UNCHANGED <<index, frames, png_readback, next_readback_cb,
                 swapchain_images, readback_buffers, acquire_semaphore,
                 readback_fence, worker_threads, latched, pc, in_dtor,
                 external_frame, release, gpu, files, nwrites, dispatched,
                 retired, had_release, readback_calls, notPipeVars>>

\* lines 155-163: the lifecycle events Paused, then Stopped (each after
\* dequeue_all_latched); the four vectors are cleared
release_resources_clear ==
  /\ pc = "release_wait"
  /\ wi = SwapchainImages
  /\ latched' = {"Stopped"}
  /\ swapchain_images' = Cleared
  /\ readback_buffers' = Cleared
  /\ acquire_semaphore' = Cleared
  /\ readback_fence' = Cleared
  /\ pc' = IF in_dtor THEN "dtor_dead" ELSE "released"
  /\ wi' = 0
  /\ UNCHANGED <<index, frames, png_readback, next_readback_cb,
                 worker_threads, in_dtor, external_frame, release, gpu,
                 files, nwrites, dispatched, retired, had_release,
                 readback_calls, notPipeVars>>

\* the members are destroyed: ~FrameWorker of the next worker, lines 116-120
worker_dtor_dead ==
  /\ pc = "dtor_dead"
  /\ wi < SwapchainImages
  /\ worker_threads' = [worker_threads EXCEPT ![wi].dead = TRUE]
  /\ pc' = "dtor_join"
  /\ UNCHANGED <<index, frames, png_readback, next_readback_cb,
                 swapchain_images, readback_buffers, acquire_semaphore,
                 readback_fence, latched, wi, in_dtor, external_frame,
                 release, gpu, files, nwrites, dispatched, retired,
                 had_release, readback_calls, notPipeVars>>

\* ~FrameWorker, lines 122-123: thr.join() returns
worker_dtor_join ==
  /\ pc = "dtor_join"
  /\ worker_threads[wi].at = "exited"
  /\ wi' = wi + 1
  /\ pc' = IF wi + 1 = SwapchainImages THEN "destroyed" ELSE "dtor_dead"
  /\ UNCHANGED <<index, frames, png_readback, next_readback_cb,
                 swapchain_images, readback_buffers, acquire_semaphore,
                 readback_fence, worker_threads, latched, in_dtor,
                 external_frame, release, gpu, files, nwrites, dispatched,
                 retired, had_release, readback_calls, notPipeVars>>

(***************************************************************************)
(* Spec: the platform after the constructor (lines 129-141) and init       *)
(* (lines 218-251), driven by one thread.                                  *)
(***************************************************************************)
\* the members and the collaborators; the lifecycle event that is latched
\* when the constructor has run (lines 135-140)
InitPlatformMembers ==
  /\ index = 0
  /\ frames = 0
  /\ png_readback \in Bases
  /\ next_readback_cb = NoCb
  /\ swapchain_images = [i \in Slots |-> -1]
  /\ readback_buffers = [i \in Slots |-> [data |-> -1, mapped |-> FALSE]]
  /\ acquire_semaphore = [i \in Slots |-> NullSemaphore]
  /\ readback_fence = [i \in Slots |-> NullFence]
  /\ worker_threads = [i \in Slots |->
        [working |-> FALSE, dead |-> FALSE, func |-> NoFunc, at |-> "wait"]]
  /\ pc = "idle"
  /\ wi = 0
  /\ in_dtor = FALSE
  /\ external_frame = [index |-> 0, semaphore |-> NullSemaphore]
  /\ release = NullSemaphore
  /\ gpu = [i \in Slots |-> -1]
  /\ files = {}
  /\ nwrites = 0
  /\ dispatched = [i \in Slots |-> 0]
  /\ retired = [i \in Slots |-> 0]
  /\ had_release = {}
  /\ readback_calls = 0

InitPlatform ==
  /\ InitPlatformMembers
  /\ latched = {"Running"}

\* main is not modelled: the platform is driven by any sequence of calls
NoMain ==
  /\ main_pc = "none"
  /\ args = <<>>
  /\ max_frames = 0
  /\ rendered_frames = 0
  /\ hw_counter_handle = FALSE
  /\ has_start_counters = FALSE
  /\ has_end_counters = FALSE
  /\ start_counter = 0
  /\ end_counter = 0
  /\ doc = <<>>
  /\ exit_code = "running"
  /\ setup = "none"
  /\ hw_setup = "none"
  /\ samples = 0

\* no staging buffer is looked into pixel by pixel
NoPixels ==
  /\ width = 0
  /\ height = 0
  /\ ptr = <<>>
  /\ fix_i = 0
  /\ copied = <<>>
  /\ passes = 0

\* the platform exists, constructed and not released; its lifecycle
\* statements are not followed one by one
NoLifecycle ==
  /\ life_pc = "alive"
  /\ step = 0
  /\ kind = "headless"
  /\ published = <<>>
  /\ platforms = 1
  /\ releases = 0

\* application_main of the custom surface is not entered
NoCustom ==
  /\ custom_pc = "none"
  /\ custom_args = <<>>
  /\ run_frames = 0
  /\ custom_exit = <<>>
  /\ app = "none"
  /\ library = <<>>
  /\ extensions = <<>>
  /\ surface = "none"

\* the steps of the FrameWorker threads
Background ==
  \E i \in Slots :
    \/ worker_exit(i)
    \/ job_fence_wait(i)
    \/ job_map(i)
    \/ job_write(i)
    \/ worker_done(i)

\* the steps of the driving thread
Driver ==
  \/ begin_frame
  \/ begin_frame_wait
  \/ run_frame
  \/ end_frame
  \/ end_frame_set_work
  \/ set_next_readback
  \/ wait_threads
  \/ wait_threads_next
  \/ wait_threads_return
  \/ release_resources
  \/ release_resources_next
  \/ release_resources_clear
  \/ worker_dtor_dead
  \/ worker_dtor_join

(***************************************************************************)
(* SpecWorker: one FrameWorker, its thread and its owner.                  *)
(***************************************************************************)
\* lines 63-64, 69-72: working = false, dead = false, func empty, the thread
\* created at the top of thread_loop
InitWorker ==
  /\ working = FALSE
  /\ dead = FALSE
  /\ func = 0
  /\ cond_lock = NoThread
  /\ cond = {}
  /\ at = [t \in Threads |-> IF t = Thr THEN "loop_lock" ELSE "idle"]
  /\ op = [t \in Callers |-> "none"]
  /\ slept = [t \in Callers |-> FALSE]
  /\ installed = 0
  /\ started = 0
  /\ finished = 0
  /\ running = 0

\* the FrameWorker of SpecWorker stands alone: a platform that was
\* constructed and never acts
InitAlone ==
  /\ InitWorker
  /\ InitPlatform
  /\ png_readback = ""
  /\ NoMain
  /\ NoPixels
  /\ NoLifecycle
  /\ NoCustom

\* the steps of a thread that is inside wait(), set_work() or the destructor
CallerStep(c) ==
  \/ wait_lock(c)
  \/ wait_pred(c)
  \/ wait_return(c)
  \/ set_work_func(c)
  \/ set_work_lock(c)
  \/ set_work_notify(c)
  \/ set_work_return(c)
  \/ dtor_lock(c)
  \/ dtor_dead(c)
  \/ dtor_join(c)

\* the calls the owner may make when it is in none of them
CallerCall(c) ==
  \/ Call_wait(c)
  \/ Call_set_work(c)
  \/ Call_dtor(c)

NextWorker ==
  \/ thread_loop
  \/ \E c \in Callers : CallerStep(c)
  \/ \E c \in Callers : CallerCall(c)
  \/ \E t \in Threads : SpuriousWake(t)

SpecWorker == InitAlone /\ [][NextWorker]_vars

\* SpecWorker with the scheduling the threads get: a thread that can take a
\* step of the code it is inside eventually takes it, and a thread waiting
\* for the mutex gets it when the mutex is released again and again (no
\* thread starves at mutex.lock()).  Nothing obliges the owner to make
\* another call, and nothing obliges a spurious wake-up.
SpecWorkerFair ==
  /\ SpecWorker
  /\ WF_vars(thread_loop)
  /\ SF_vars(loop_lock)
  /\ SF_vars(loop_done_lock)
  /\ \A c \in Callers :
       /\ WF_vars(CallerStep(c))
       /\ SF_vars(wait_lock(c))
       /\ SF_vars(set_work_lock(c))
       /\ SF_vars(dtor_lock(c))

(***************************************************************************)
(* One FrameWorker with two threads that call wait(): Main, the owner,     *)
(* which also hands work in, and Aux, which only waits.  The class has no  *)
(* member that tells callers apart, so lines 74-80 run the same for both.  *)
(***************************************************************************)
Aux == "aux"
Waiters == {Main, Aux}

InitWaiters ==
  /\ working = FALSE
  /\ dead = FALSE
  /\ func = 0
  /\ cond_lock = NoThread
  /\ cond = {}
  /\ at = [t \in {Thr} \cup Waiters |-> IF t = Thr THEN "loop_lock" ELSE "idle"]
  /\ op = [t \in Waiters |-> "none"]
  /\ slept = [t \in Waiters |-> FALSE]
  /\ installed = 0
  /\ started = 0
  /\ finished = 0
  /\ running = 0
  /\ InitPlatform
  /\ png_readback = ""
  /\ NoMain
  /\ NoPixels
  /\ NoLifecycle
  /\ NoCustom

WaiterStep(c) ==
  \/ wait_lock(c)
  \/ wait_pred(c)
  \/ wait_return(c)
  \/ set_work_func(c)
  \/ set_work_lock(c)
  \/ set_work_notify(c)
  \/ set_work_return(c)

NextWaiters ==
  \/ thread_loop
  \/ \E c \in Waiters : WaiterStep(c)
  \/ \E c \in Waiters : Call_wait(c)
  \/ Call_set_work(Main)
  \/ \E t \in {Thr} \cup Waiters : SpuriousWake(t)

SpecWaiters == InitWaiters /\ [][NextWaiters]_vars

(***************************************************************************)
(* Spec: the platform, its four FrameWorkers, the device and the driving   *)
(* thread.                                                                 *)
(***************************************************************************)
Init ==
  InitPlatform /\ InitWorker /\ NoMain /\ NoPixels /\ NoLifecycle /\ NoCustom

Next ==
  \/ Driver
  \/ Background

Spec == Init /\ [][Next]_vars

(***************************************************************************)
(* main, lines 456-631: the headless entry point.                          *)
(***************************************************************************)
\* UINT_MAX, the default of Args::max_frames (line 491) and of
\* WSIPlatformHeadless::max_frames (line 400): a budget no run of the model
\* has, kept as a name (--frames always replaces it before alive() reads it)
UINT_MAX == "UINT_MAX"

\* struct Args, lines 482-495, as declared
DefaultArgs ==
  [max_frames |-> UINT_MAX, png_path |-> "", png_reference_path |-> "",
   stat |-> "", hw_counter_lib |-> ""]

\* the command lines of the model: --frames is given, each of the other
\* options is given or not
CommandLines ==
  [max_frames : 0 .. MaxBudget, png_path : Bases,
   png_reference_path : Paths \cup {""}, stat : {"", "stat.json"},
   hw_counter_lib : {"", "libhwc.so"}]

\* the ways setup_hw_counter_lib ends, lines 360-386: DynamicLibrary throws,
\* get_symbol returns null, get_iface returns false, create returns null,
\* or a handle exists
HwOutcomes == {"load_failed", "no_symbol", "no_iface", "no_handle", "ok"}

\* the process ends: main returns 0 or 1, or std::terminate is called
Exit(code, why) ==
  /\ exit_code' = code
  /\ setup' = why
  /\ main_pc' = "exited"

\* lines 479-520: argc < 1 returns 1; the parser fails and main returns 1;
\* --help ends the parser and main returns 0; else the arguments are parsed
main_parse ==
  /\ main_pc = "start"
  /\ \/ Exit("1", "argc") /\ UNCHANGED args
     \/ Exit("1", "parse") /\ UNCHANGED args
     \/ Exit("0", "help") /\ UNCHANGED args
     \/ /\ args' \in CommandLines
        /\ main_pc' = "create"
        /\ UNCHANGED <<exit_code, setup>>
  /\ UNCHANGED <<pipeVars, max_frames, rendered_frames, hw_counter_handle,
                 has_start_counters, has_end_counters, start_counter,
                 end_counter, doc, hw_setup, samples, workerVars, pixelVars,
                 lifeVars, customVars>>

\* line 531, line 538 and lines 629-630: application_create; without an application
\* main returns 1
main_create_app ==
  /\ main_pc = "create"
  /\ \/ Exit("1", "app")
     \/ main_pc' = "platform" /\ UNCHANGED <<exit_code, setup>>
  /\ UNCHANGED <<pipeVars, args, max_frames, rendered_frames,
                 hw_counter_handle, has_start_counters, has_end_counters,
                 start_counter, end_counter, doc, hw_setup, samples,
                 workerVars, pixelVars,
                 lifeVars, customVars>>

\* what leaves main when the constructor of line 540 throws: main has no
\* handler, the exception is not caught and std::terminate ends the process
PlatformThrows == Exit("terminate", "loader")

\* line 540 and the constructor, lines 129-141: Context::init_loader fails
\* and the constructor throws runtime_error, or the platform is constructed
main_platform ==
  /\ main_pc = "platform"
  /\ \/ PlatformThrows
     \/ main_pc' = "hw" /\ UNCHANGED <<exit_code, setup>>
  /\ UNCHANGED <<pipeVars, args, max_frames, rendered_frames,
                 hw_counter_handle, has_start_counters, has_end_counters,
                 start_counter, end_counter, doc, hw_setup, samples,
                 workerVars, pixelVars,
                 lifeVars, customVars>>

\* setup_hw_counter_lib, lines 358-387: hw_counter_handle is set by line 376
\* alone, which the failures before it do not reach, and is null when
\* create fails
setup_hw_counter_lib(o) ==
  /\ hw_setup' = o
  /\ hw_counter_handle' = (o = "ok")

\* lines 543-544: the library is set up when --hw-counter-lib was given
main_hw ==
  /\ main_pc = "hw"
  /\ IF args.hw_counter_lib # ""
       THEN \E o \in HwOutcomes : setup_hw_counter_lib(o)
       ELSE UNCHANGED <<hw_setup, hw_counter_handle>>
  /\ main_pc' = "init_wsi"
  /\ UNCHANGED <<pipeVars, args, max_frames, rendered_frames,
                 has_start_counters, has_end_counters, start_counter,
                 end_counter, doc, exit_code, setup, samples, workerVars,
                 pixelVars, lifeVars, customVars>>

\* lines 546-553: init_wsi fails and main returns 1; else
\* enable_png_readback (when --png-path was given), set_max_frames and init
main_init_wsi ==
  /\ main_pc = "init_wsi"
  /\ \/ /\ Exit("1", "wsi")
        /\ UNCHANGED <<png_readback, max_frames>>
     \/ /\ png_readback' = IF args.png_path # "" THEN args.png_path
                           ELSE png_readback
        /\ max_frames' = args.max_frames
        /\ setup' = "ok"
        /\ main_pc' = "warmup"
        /\ UNCHANGED exit_code
  /\ UNCHANGED <<index, frames, next_readback_cb, swapchain_images,
                 readback_buffers, acquire_semaphore, readback_fence,
                 worker_threads, latched, pc, wi, in_dtor, external_frame,
                 release, gpu, files, nwrites, dispatched, retired,
                 had_release, readback_calls, args, rendered_frames,
                 hw_counter_handle, has_start_counters, has_end_counters,
                 start_counter, end_counter, doc, hw_setup, samples,
                 workerVars, pixelVars,
                 lifeVars, customVars>>

\* alive, lines 166-169
alive == frames < max_frames

\* Application::poll, called at lines 556 and 570: the platform's alive()
\* decides it
poll == alive

\* wait_threads has waited for every worker and returns
WaitThreadsReturns == pc = "wait_threads" /\ wi = SwapchainImages

\* the readings of the hardware counters a successful wait_sample stores
CounterReadings ==
  {[gpu_cycles |-> 7, bandwidth_read |-> 3, bandwidth_write |-> 0],
   [gpu_cycles |-> 20, bandwidth_read |-> 9, bandwidth_write |-> 5]}

\* hw_counter start_counter, end_counter (line 566) before any sample
NoCounter == [gpu_cycles |-> 0, bandwidth_read |-> 0, bandwidth_write |-> 0]

\* get_counters, lines 389-394, with the result in has and the sample in
\* counter: false without a handle, else what wait_sample returns
get_counters(has, counter) ==
  IF ~hw_counter_handle
    THEN /\ has = FALSE
         /\ counter = NoCounter
         /\ UNCHANGED samples
    ELSE \E ok \in BOOLEAN :
           /\ samples' = samples + 1
           /\ has = ok
           /\ IF ok THEN counter \in CounterReadings ELSE counter = NoCounter

\* lines 555-563: the warm-up frame, run when poll() says so; then
\* wait_threads is called
main_warmup ==
  /\ main_pc = "warmup"
  /\ pc = "idle"
  /\ IF poll
       THEN /\ BeginFrameCall
            /\ main_pc' = "warmup_frame"
            /\ UNCHANGED wi
       ELSE /\ WaitThreadsCall
            /\ main_pc' = "warmup_wait"
            /\ UNCHANGED <<external_frame, acquire_semaphore>>
  /\ UNCHANGED <<index, frames, png_readback, next_readback_cb,
                 swapchain_images, readback_buffers, readback_fence,
                 worker_threads, latched, in_dtor, release, gpu, files,
                 nwrites, dispatched, retired, had_release, readback_calls,
                 args, max_frames, rendered_frames, hw_counter_handle,
                 has_start_counters, has_end_counters, start_counter,
                 end_counter, doc, exit_code, setup, hw_setup, samples,
                 workerVars, pixelVars,
                 lifeVars, customVars>>

\* lines 560-563: end_frame of the warm-up frame has returned
main_warmup_done ==
  /\ main_pc = "warmup_frame"
  /\ pc = "idle"
  /\ WaitThreadsCall
  /\ main_pc' = "warmup_wait"
  /\ UNCHANGED <<index, frames, png_readback, next_readback_cb,
                 swapchain_images, readback_buffers, acquire_semaphore,
                 readback_fence, worker_threads, latched, in_dtor,
                 external_frame, release, gpu, files, nwrites, dispatched,
                 retired, had_release, readback_calls, args, max_frames,
                 rendered_frames, hw_counter_handle, has_start_counters,
                 has_end_counters, start_counter, end_counter, doc,
                 exit_code, setup, hw_setup, samples, workerVars, pixelVars,
                 lifeVars, customVars>>

\* lines 563-569: wait_threads returns; wait_idle; the first sample;
\* rendered_frames = 0
main_start_counters ==
  /\ main_pc = "warmup_wait"
  /\ WaitThreadsReturns
  /\ get_counters(has_start_counters', start_counter')
  /\ rendered_frames' = 0
  /\ pc' = "idle"
  /\ main_pc' = "loop"
  /\ UNCHANGED <<index, frames, png_readback, next_readback_cb,
                 swapchain_images, readback_buffers, acquire_semaphore,
                 readback_fence, worker_threads, latched, wi, in_dtor,
                 external_frame, release, gpu, files, nwrites, dispatched,
                 retired, had_release, readback_calls, args, max_frames,
                 hw_counter_handle, has_end_counters, end_counter, doc,
                 exit_code, setup, hw_setup, workerVars, pixelVars,
                 lifeVars, customVars>>

\* lines 570-579: the test of the timed loop; a frame is begun, or the loop
\* is left and wait_threads is called
main_loop ==
  /\ main_pc = "loop"
  /\ pc = "idle"
  /\ IF poll
       THEN /\ BeginFrameCall
            /\ main_pc' = "loop_frame"
            /\ UNCHANGED wi
       ELSE /\ WaitThreadsCall
            /\ main_pc' = "loop_wait"
            /\ UNCHANGED <<external_frame, acquire_semaphore>>
  /\ UNCHANGED <<index, frames, png_readback, next_readback_cb,
                 swapchain_images, readback_buffers, readback_fence,
                 worker_threads, latched, in_dtor, release, gpu, files,
                 nwrites, dispatched, retired, had_release, readback_calls,
                 args, max_frames, rendered_frames, hw_counter_handle,
                 has_start_counters, has_end_counters, start_counter,
                 end_counter, doc, exit_code, setup, hw_setup, samples,
                 workerVars, pixelVars,
                 lifeVars, customVars>>

\* lines 575-576: end_frame has returned; rendered_frames++
main_loop_next ==
  /\ main_pc = "loop_frame"
  /\ pc = "idle"
  /\ rendered_frames' = rendered_frames + 1
  /\ main_pc' = "loop"
  /\ UNCHANGED <<pipeVars, args, max_frames, hw_counter_handle,
                 has_start_counters, has_end_counters, start_counter,
                 end_counter, doc, exit_code, setup, hw_setup, samples,
                 workerVars, pixelVars,
                 lifeVars, customVars>>

\* the hardware counters count up: a later reading is not below an earlier
CountedUp(earlier, later) ==
  /\ later.gpu_cycles >= earlier.gpu_cycles
  /\ later.bandwidth_read >= earlier.bandwidth_read
  /\ later.bandwidth_write >= earlier.bandwidth_write

\* lines 579-582: wait_threads returns; wait_idle; the second sample
main_end_counters ==
  /\ main_pc = "loop_wait"
  /\ WaitThreadsReturns
  /\ get_counters(has_end_counters', end_counter')
  /\ (has_start_counters /\ has_end_counters') =>
       CountedUp(start_counter, end_counter')
  /\ pc' = "idle"
  /\ main_pc' = "report"
  /\ UNCHANGED <<index, frames, png_readback, next_readback_cb,
                 swapchain_images, readback_buffers, acquire_semaphore,
                 readback_fence, worker_threads, latched, wi, in_dtor,
                 external_frame, release, gpu, files, nwrites, dispatched,
                 retired, had_release, readback_calls, args, max_frames,
                 rendered_frames, hw_counter_handle, has_start_counters,
                 start_counter, doc, exit_code, setup, hw_setup, workerVars,
                 pixelVars, lifeVars, customVars>>

\* line 601: the counter members are added to the report
HasCounters_either == has_start_counters \/ has_end_counters
HasCounters == has_start_counters /\ has_end_counters

\* lines 593-606: the members of the Document: the average frame time, the
\* GPU name and driver version, and the three counter deltas over
\* rendered_frames
Document ==
  IF HasCounters
    THEN [averageFrameTimeUs |-> "usec", gpu |-> "deviceName",
          driverVersion |-> "driverVersion",
          gpuCycles |->
            (end_counter.gpu_cycles - start_counter.gpu_cycles)
              \div rendered_frames,
          bandwidthRead |->
            (end_counter.bandwidth_read - start_counter.bandwidth_read)
              \div rendered_frames,
          bandwidthWrite |->
            (end_counter.bandwidth_write - start_counter.bandwidth_write)
              \div rendered_frames]
    ELSE [averageFrameTimeUs |-> "usec", gpu |-> "deviceName",
          driverVersion |-> "driverVersion"]

\* lines 586-616: the report, made when frames were rendered and --stat was
\* given
main_report ==
  /\ main_pc = "report"
  /\ doc' = IF rendered_frames # 0 /\ args.stat # "" THEN Document ELSE doc
  /\ main_pc' = "reference"
  /\ UNCHANGED <<pipeVars, args, max_frames, rendered_frames,
                 hw_counter_handle, has_start_counters, has_end_counters,
                 start_counter, end_counter, exit_code, setup, hw_setup,
                 samples, workerVars, pixelVars,
                 lifeVars, customVars>>

\* lines 618-626: with --png-reference-path, set_next_readback and the
\* begin_frame of one more frame; without, wait_threads is called
main_reference ==
  /\ main_pc = "reference"
  /\ pc = "idle"
  /\ IF args.png_reference_path # ""
       THEN /\ SetNextReadbackCall(args.png_reference_path)
            /\ BeginFrameCall
            /\ main_pc' = "reference_frame"
            /\ UNCHANGED wi
       ELSE /\ WaitThreadsCall
            /\ main_pc' = "final_wait"
            /\ UNCHANGED <<next_readback_cb, readback_calls, external_frame,
                           acquire_semaphore>>
  /\ UNCHANGED <<index, frames, png_readback, swapchain_images,
                 readback_buffers, readback_fence, worker_threads, latched,
                 in_dtor, release, gpu, files, nwrites, dispatched, retired,
                 had_release, args, max_frames, rendered_frames,
                 hw_counter_handle, has_start_counters, has_end_counters,
                 start_counter, end_counter, doc, exit_code, setup,
                 hw_setup, samples, workerVars, pixelVars,
                 lifeVars, customVars>>

\* lines 623-626: end_frame of the reference frame has returned
main_reference_done ==
  /\ main_pc = "reference_frame"
  /\ pc = "idle"
  /\ WaitThreadsCall
  /\ main_pc' = "final_wait"
  /\ UNCHANGED <<index, frames, png_readback, next_readback_cb,
                 swapchain_images, readback_buffers, acquire_semaphore,
                 readback_fence, worker_threads, latched, in_dtor,
                 external_frame, release, gpu, files, nwrites, dispatched,
                 retired, had_release, readback_calls, args, max_frames,
                 rendered_frames, hw_counter_handle, has_start_counters,
                 has_end_counters, start_counter, end_counter, doc,
                 exit_code, setup, hw_setup, samples, workerVars, pixelVars,
                 lifeVars, customVars>>

\* lines 626-627: wait_threads returns; return 0


main_return_early ==
  /\ main_pc = "final_wait"
  /\ pc = "wait_threads"
  /\ exit_code' = "0"
  /\ pc' = "returned"
  /\ main_pc' = "exited"
  /\ UNCHANGED <<index, frames, png_readback, next_readback_cb,
                 swapchain_images, readback_buffers, acquire_semaphore,
                 readback_fence, worker_threads, latched, wi, in_dtor,
                 external_frame, release, gpu, files, nwrites, dispatched,
                 retired, had_release, readback_calls, args, max_frames,
                 rendered_frames, hw_counter_handle, has_start_counters,
                 has_end_counters, start_counter, end_counter, doc, setup,
                 hw_setup, samples, workerVars, pixelVars,
                 lifeVars, customVars>>

main_return ==
  /\ main_pc = "final_wait"
  /\ WaitThreadsReturns
  /\ exit_code' = "0"
  /\ pc' = "returned"
  /\ main_pc' = "exited"
  /\ UNCHANGED <<index, frames, png_readback, next_readback_cb,
                 swapchain_images, readback_buffers, acquire_semaphore,
                 readback_fence, worker_threads, latched, wi, in_dtor,
                 external_frame, release, gpu, files, nwrites, dispatched,
                 retired, had_release, readback_calls, args, max_frames,
                 rendered_frames, hw_counter_handle, has_start_counters,
                 has_end_counters, start_counter, end_counter, doc, setup,
                 hw_setup, samples, workerVars, pixelVars,
                 lifeVars, customVars>>

\* the process at the first statement of main
InitMain ==
  /\ InitPlatform
  /\ png_readback = ""
  /\ InitWorker
  /\ NoPixels
  /\ NoLifecycle
  /\ NoCustom
  /\ main_pc = "start"
  /\ args = DefaultArgs
  /\ max_frames = UINT_MAX
  /\ rendered_frames = 0
  /\ hw_counter_handle = FALSE
  /\ has_start_counters = FALSE
  /\ has_end_counters = FALSE
  /\ start_counter = NoCounter
  /\ end_counter = NoCounter
  /\ doc = <<>>
  /\ exit_code = "running"
  /\ setup = "none"
  /\ hw_setup = "none"
  /\ samples = 0

\* the statements of main
MainStep ==
  \/ main_parse
  \/ main_create_app
  \/ main_platform
  \/ main_hw
  \/ main_init_wsi
  \/ main_warmup
  \/ main_warmup_done
  \/ main_start_counters
  \/ main_loop
  \/ main_loop_next
  \/ main_end_counters
  \/ main_report
  \/ main_reference
  \/ main_reference_done
  \/ main_return

\* the steps inside the platform calls main makes
PlatformStep ==
  \/ begin_frame_wait
  \/ run_frame
  \/ end_frame
  \/ end_frame_set_work
  \/ wait_threads_next

\* after return 0 the locals of main are destroyed: app, with it the WSI
\* and the platform it owns (~WSIPlatformHeadless, lines 143-148)
MainTeardown ==
  \/ pc = "returned" /\ release_resources
  \/ release_resources_next
  \/ release_resources_clear
  \/ worker_dtor_dead
  \/ worker_dtor_join

NextMain ==
  \/ MainStep
  \/ PlatformStep
  \/ MainTeardown
  \/ Background

SpecMain == InitMain /\ [][NextMain]_vars

(***************************************************************************)
(* The alpha fix-up of the readback jobs: lines 342-344 (the readback      *)
(* callback) and lines 423-425 (dump_frame), the same loop in both.        *)
(***************************************************************************)
\* uint32_t: a pixel is a word of 32 bits, here most significant bit first
WordBits == 32

\* the 8 bits of a byte value, most significant first
ByteBits(n) == [k \in 1 .. 8 |-> (n \div (2 ^ (8 - k))) % 2]

\* the word with the bytes a (bits 31-24), b, g and r (bits 7-0)
Word(a, b, g, r) == ByteBits(a) \o ByteBits(b) \o ByteBits(g) \o ByteBits(r)

\* the constant 0xff000000u
AlphaMask == Word(255, 0, 0, 0)

\* x | y on 32-bit words
BitOr(x, y) == [k \in 1 .. WordBits |-> IF x[k] = 1 \/ y[k] = 1 THEN 1 ELSE 0]

\* ptr[i] |= 0xff000000u, lines 344 and 425
AlphaFix_assign(p) == AlphaMask
AlphaFix(p) == BitOr(p, AlphaMask)

\* the pixel values a copied buffer holds in the model: each alpha with each
\* colour
PixelValues ==
  {Word(a, c[1], c[2], c[3]) :
     a \in {0, 127, 255}, c \in {<<0, 0, 0>>, <<18, 52, 86>>, <<255, 255, 255>>}}

\* the sizes of the surface: width * height pixels, at least one
Sizes ==
  {s \in (1 .. MaxPixels) \X (1 .. MaxPixels) : s[1] * s[2] <= MaxPixels}

\* all buffers of n pixels
RECURSIVE Buffers(_)
Buffers(n) ==
  IF n = 0 THEN {<<>>}
  ELSE {Append(b, v) : b \in Buffers(n - 1), v \in PixelValues}

\* map_host_buffer returned ptr (lines 342, 423): the buffer of width *
\* height words (line 236) as the device copied it; i = 0
InitPixels ==
  /\ InitPlatform
  /\ png_readback = ""
  /\ InitWorker
  /\ NoMain
  /\ NoLifecycle
  /\ NoCustom
  /\ \E s \in Sizes : width = s[1] /\ height = s[2]
  /\ ptr \in Buffers(width * height)
  /\ copied = ptr
  /\ fix_i = 0
  /\ passes = 0

\* one turn of the loop, lines 343-344 and 424-425:
\* for (i = 0; i < width * height; i++) ptr[i] |= 0xff000000u
fix_pixel ==
  /\ fix_i < width * height
  /\ ptr' = [ptr EXCEPT ![fix_i + 1] = AlphaFix(ptr[fix_i + 1])]
  /\ fix_i' = fix_i + 1
  /\ UNCHANGED <<width, height, copied, passes, pipeVars, workerVars, mainVars,
                 lifeVars, customVars>>

\* the loop ends: i = width * height
fix_done ==
  /\ fix_i = width * height
  /\ passes < MaxPasses
  /\ passes' = passes + 1
  /\ fix_i' = IF passes + 1 < MaxPasses THEN 0 ELSE fix_i
  /\ UNCHANGED <<width, height, ptr, copied, pipeVars, workerVars, mainVars,
                 lifeVars, customVars>>

NextPixels ==
  \/ fix_pixel
  \/ fix_done

SpecPixels == InitPixels /\ [][NextPixels]_vars

(***************************************************************************)
(* SpecReadbacks: the frame cycle and the workers' jobs with several       *)
(* explicit readback requests, each for a path of its own.                 *)
(***************************************************************************)
MaxRequests == 2
RequestPaths == {"ref.png", "shot.png"}

\* lines 333-350: set_next_readback(path), called between two frames
set_next_readback_paths ==
  /\ pc = "idle"
  /\ readback_calls < MaxRequests
  /\ \E path \in RequestPaths : SetNextReadbackCall(path)
  /\ UNCHANGED <<index, frames, png_readback, swapchain_images,
                 readback_buffers, acquire_semaphore, readback_fence,
                 worker_threads, latched, pc, wi, in_dtor, external_frame,
                 release, gpu, files, nwrites, dispatched, retired,
                 had_release, notPipeVars>>

\* the closure a worker thread is running
Job ==
  \E i \in Slots :
    \/ job_fence_wait(i)
    \/ job_map(i)
    \/ job_write(i)
    \/ worker_done(i)

NextReadbacks ==
  \/ begin_frame
  \/ begin_frame_wait
  \/ run_frame
  \/ end_frame
  \/ end_frame_set_work
  \/ set_next_readback_paths
  \/ Job

SpecReadbacks == Init /\ [][NextReadbacks]_vars

(***************************************************************************)
(* SpecLifecycle: the ApplicationLifecycleEvents a platform publishes,     *)
(* statement by statement: the constructors (application_headless.cpp      *)
(* lines 129-141, application_custom_surface.cpp lines 49-65),             *)
(* release_resources (lines 150-164) and the destructors (lines 143-148    *)
(* and application_custom_surface.cpp lines 67-77).                        *)
(***************************************************************************)
MaxPlatforms == 3
MaxReleases == 2
PlatformKinds == {"headless", "custom"}

\* Global::event_manager(): application_main calls Global::init() before it
\* constructs the platform, and the manager exists from then on
event_manager == TRUE

\* EventManager::dequeue_all_latched(ApplicationLifecycleEvent::get_type_id())
\* and EventManager::enqueue_latched<ApplicationLifecycleEvent>(e)
dequeue_all_latched_keep == latched' = latched
dequeue_all_latched == latched' = {}
enqueue_latched(e) == latched' = latched \cup {e}

\* the events a function publishes, in the order of its statements
LifecycleScript(p) ==
  IF p = "ctor" THEN <<"Stopped", "Paused", "Running">>
  ELSE <<"Paused", "Stopped">>

\* where the owner is when the function has returned
LifecycleReturn(p) ==
  IF p = "ctor" THEN "alive"
  ELSE IF p = "release" THEN "released"
  ELSE "none"

\* whether the platform publishes at all: the custom surface asks `if (em)`
Publishes(k) == k = "headless" \/ event_manager

pipeMembers == <<index, frames, png_readback, next_readback_cb,
                 swapchain_images, readback_buffers, acquire_semaphore,
                 readback_fence, worker_threads, pc, wi, in_dtor,
                 external_frame, release, gpu, files, nwrites, dispatched,
                 retired, had_release, readback_calls>>
notLifeVars == <<pipeMembers, workerVars, mainVars, pixelVars, customVars>>

\* make_unique<WSIPlatformHeadless>(...) / make_unique<WSIPlatformCustomSurface>(...):
\* the constructor throws when the loader fails, before it publishes
platform_construct(k) ==
  /\ life_pc = "none"
  /\ platforms < MaxPlatforms
  /\ platforms' = platforms + 1
  /\ \E loader \in BOOLEAN :
       IF ~loader
         THEN UNCHANGED <<life_pc, step, kind, published, releases>>
         ELSE /\ kind' = k
              /\ published' = <<>>
              /\ releases' = 0
              /\ life_pc' = IF Publishes(k) THEN "ctor" ELSE "alive"
              /\ step' = IF Publishes(k) THEN 1 ELSE 0
  /\ UNCHANGED <<latched, notLifeVars>>

\* WSIPlatformHeadless::release_resources is called (the wait for the
\* workers is in Spec)
lifecycle_release ==
  /\ kind = "headless"
  /\ life_pc \in {"alive", "released"}
  /\ releases < MaxReleases
  /\ life_pc' = "release"
  /\ step' = 1
  /\ releases' = releases + 1
  /\ UNCHANGED <<kind, published, platforms, latched, notLifeVars>>

\* the platform is destroyed: ~WSIPlatformHeadless calls release_resources,
\* ~WSIPlatformCustomSurface has the statements itself
platform_destroy ==
  /\ life_pc \in {"alive", "released"}
  /\ life_pc' = IF Publishes(kind) THEN "dtor" ELSE "none"
  /\ step' = IF Publishes(kind) THEN 1 ELSE 0
  /\ releases' = releases + 1
  /\ UNCHANGED <<kind, published, platforms, latched, notLifeVars>>

\* the odd statements: dequeue_all_latched
lifecycle_dequeue ==
  /\ life_pc \in {"ctor", "release", "dtor"}
  /\ step % 2 = 1
  /\ dequeue_all_latched
  /\ step' = step + 1
  /\ UNCHANGED <<life_pc, kind, published, platforms, releases, notLifeVars>>

\* the even statements: enqueue_latched; after the last one the function
\* returns
lifecycle_enqueue ==
  /\ life_pc \in {"ctor", "release", "dtor"}
  /\ step > 0
  /\ step % 2 = 0
  /\ LET e == LifecycleScript(life_pc)[step \div 2]
         last == step = 2 * Len(LifecycleScript(life_pc)) IN
       /\ enqueue_latched(e)
       /\ published' = Append(published, e)
       /\ life_pc' = IF last THEN LifecycleReturn(life_pc) ELSE life_pc
       /\ step' = IF last THEN 0 ELSE step + 1
  /\ UNCHANGED <<kind, platforms, releases, notLifeVars>>

InitLifecycle ==
  /\ InitPlatformMembers
  /\ png_readback = ""
  /\ latched = {}
  /\ InitWorker
  /\ NoMain
  /\ NoPixels
  /\ NoCustom
  /\ life_pc = "none"
  /\ step = 0
  /\ kind = "headless"
  /\ published = <<>>
  /\ platforms = 0
  /\ releases = 0

NextLifecycle ==
  \/ \E k \in PlatformKinds : platform_construct(k)
  \/ lifecycle_release
  \/ platform_destroy
  \/ lifecycle_dequeue
  \/ lifecycle_enqueue

SpecLifecycle == InitLifecycle /\ [][NextLifecycle]_vars

(***************************************************************************)
(* SpecCustom: application_main and WSIPlatformCustomSurface of            *)
(* application_custom_surface.cpp.                                         *)
(***************************************************************************)
MaxRunFrames == 4

\* what the command line gives: --library (not given: ""), --frames
\* (not given: 0, line 160)
CustomCommandLines ==
  [library : {"", "libsurface.so"}, frames : 0 .. MaxBudget]

\* the entry points the library has: the surface extension symbol, and the
\* surface creation symbol, which may be missing, fail or succeed
Libraries == [extension : BOOLEAN, create : {"missing", "fails", "ok"}]

VK_NULL_HANDLE == "VK_NULL_HANDLE"

\* application_main returns code, or the process ends in std::terminate
Return(code, why) ==
  /\ custom_exit' = [code |-> code, why |-> why]
  /\ custom_pc' = "returned"

\* lines 181-186: the command line is parsed
application_main_parse ==
  /\ custom_pc = "start"
  /\ \/ /\ Return("1", "parse")
        /\ UNCHANGED custom_args
     \/ /\ Return("0", "help")
        /\ UNCHANGED custom_args
     \/ /\ custom_args' \in CustomCommandLines
        /\ custom_pc' = "library"
        /\ UNCHANGED custom_exit
  /\ UNCHANGED <<run_frames, app, library, extensions, surface, pipeVars,
                 workerVars, mainVars, pixelVars, lifeVars>>

\* lines 199-203: if (args.library.empty()) return 1
application_main_library ==
  /\ custom_pc = "library"
  /\ IF custom_args.library = ""
       THEN Return("1", "library")
       ELSE custom_pc' = "create" /\ UNCHANGED custom_exit
  /\ UNCHANGED <<custom_args, run_frames, app, library, extensions, surface,
                 pipeVars, workerVars, mainVars, pixelVars, lifeVars>>

\* lines 205-207 and 229-230: create_application; a null application
\* returns 1
application_main_create ==
  /\ custom_pc = "create"
  /\ \E made \in BOOLEAN :
       /\ app' = IF made THEN "created" ELSE "null"
       /\ IF made
            THEN custom_pc' = "init_wsi" /\ UNCHANGED custom_exit
            ELSE Return("1", "app")
  /\ UNCHANGED <<custom_args, run_frames, library, extensions, surface,
                 pipeVars, workerVars, mainVars, pixelVars, lifeVars>>

\* line 209: make_unique<WSIPlatformCustomSurface>(...): the library is
\* opened (line 50); the constructor throws when the loader fails (lines
\* 52-53) and application_main has no handler
application_main_platform ==
  /\ custom_pc = "init_wsi"
  /\ \/ /\ library' \in Libraries
        /\ custom_pc' = "extensions"
        /\ UNCHANGED custom_exit
     \/ /\ Return("terminate", "loader")
        /\ UNCHANGED library
  /\ UNCHANGED <<custom_args, run_frames, app, extensions, surface, pipeVars,
                 workerVars, mainVars, pixelVars, lifeVars>>

\* lines 89-99: WSIPlatformCustomSurface::get_instance_extensions
InstanceExtensions(lib) ==
  IF lib.extension THEN <<"VK_KHR_surface", "symbol()">>
  ELSE <<"VK_KHR_surface">>

get_instance_extensions ==
  /\ custom_pc = "extensions"
  /\ extensions' = InstanceExtensions(library)
  /\ custom_pc' = "surface"
  /\ UNCHANGED <<custom_args, run_frames, custom_exit, app, library, surface,
                 pipeVars, workerVars, mainVars, pixelVars, lifeVars>>

\* lines 101-116: WSIPlatformCustomSurface::create_surface
CreatedSurface(lib) ==
  IF lib.create = "missing" THEN VK_NULL_HANDLE
  ELSE IF lib.create = "fails" THEN VK_NULL_HANDLE
  ELSE "surface"

create_surface ==
  /\ custom_pc = "surface"
  /\ surface' = CreatedSurface(library)
  /\ custom_pc' = "wsi_done"
  /\ UNCHANGED <<custom_args, run_frames, custom_exit, app, library,
                 extensions, pipeVars, workerVars, mainVars, pixelVars,
                 lifeVars>>

\* Application::init_wsi fails without a surface, and may fail with one
InitWsiResults == IF surface = VK_NULL_HANDLE THEN {FALSE} ELSE BOOLEAN

\* lines 209-213: if (!app->init_wsi(...)) return 1; run_frames = 0
application_main_init_wsi ==
  /\ custom_pc = "wsi_done"
  /\ \E ok \in InitWsiResults :
       IF ok
         THEN custom_pc' = "poll" /\ UNCHANGED custom_exit
         ELSE Return("1", "init_wsi")
  /\ run_frames' = 0
  /\ UNCHANGED <<custom_args, app, library, extensions, surface, pipeVars,
                 workerVars, mainVars, pixelVars, lifeVars>>

\* line 214: while (app->poll()); lines 226-227 when it fails
application_main_poll ==
  /\ custom_pc = "poll"
  /\ \/ /\ run_frames < MaxRunFrames
        /\ custom_pc' = "run_frame"
        /\ UNCHANGED custom_exit
     \/ Return("0", "poll")
  /\ UNCHANGED <<custom_args, run_frames, app, library, extensions, surface,
                 pipeVars, workerVars, mainVars, pixelVars, lifeVars>>

\* line 220: args.frames && run_frames == args.frames
CompletedAll_late(n, run) == n # 0 /\ run > n
CompletedAll(n, run) == n # 0 /\ run = n

\* lines 216-224, 226-227: run_frame(); run_frames++; break when all the
\* frames asked for are submitted
application_main_run_frame ==
  /\ custom_pc = "run_frame"
  /\ run_frames' = run_frames + 1
  /\ IF CompletedAll(custom_args.frames, run_frames')
       THEN Return("0", "frames")
       ELSE custom_pc' = "poll" /\ UNCHANGED custom_exit
  /\ UNCHANGED <<custom_args, app, library, extensions, surface, pipeVars,
                 workerVars, mainVars, pixelVars, lifeVars>>

InitCustom ==
  /\ InitPlatform
  /\ png_readback = ""
  /\ InitWorker
  /\ NoMain
  /\ NoPixels
  /\ NoLifecycle
  /\ custom_pc = "start"
  /\ custom_args = [library |-> "", frames |-> 0]
  /\ run_frames = 0
  /\ custom_exit = [code |-> "running", why |-> "running"]
  /\ app = "none"
  /\ library = <<>>
  /\ extensions = <<>>
  /\ surface = "none"

NextCustom ==
  \/ application_main_parse
  \/ application_main_library
  \/ application_main_create
  \/ application_main_platform
  \/ get_instance_extensions
  \/ create_surface
  \/ application_main_init_wsi
  \/ application_main_poll
  \/ application_main_run_frame

SpecCustom == InitCustom /\ [][NextCustom]_vars

(***************************************************************************)
(* Properties of FrameWorker.                                              *)
(***************************************************************************)
\* the positions of a thread inside wait() (called directly or by set_work)
WaitAts == {"wait_lock", "wait_pred", "wait_sleep", "wait_relock", "wait_unlock"}

\* a closure has been installed and has not run to its end
Outstanding == installed - finished

\* C3: wait() never returns while a job is outstanding: when a thread is at
\* the return of wait() (predicate found true, about to leave), working is
\* false, the background thread is inside no closure, and every closure
\* installed so far has run to its end.
C3_WaitNeverReturnsEarly ==
  \A c \in Callers :
    at[c] = "wait_unlock" =>
      /\ ~working
      /\ running = 0
      /\ at[Thr] # "in_func"
      /\ Outstanding = 0

\* C3 happens: wait() returns after it slept while a closure was running
C3_Witness ==
  /\ at[Main] = "wait_unlock"
  /\ op[Main] = "wait"
  /\ slept[Main]
  /\ finished >= 1

\* C4: wait() is idempotent and live for a single caller.  (a) a thread that
\* is inside wait() eventually leaves it; (b) the steps of wait() change none
\* of working, dead, func nor the closures installed, started or finished;
\* (c) when the predicate is evaluated with working false the caller goes
\* to the return and never to sleep.
C4_WaitIdempotentAndLive ==
  /\ \A c \in Callers : (at[c] \in WaitAts) ~> (at[c] \notin WaitAts)
  /\ [][\A c \in Callers :
          (at[c] \in WaitAts \ {"wait_sleep"} /\ at'[c] # at[c]) =>
             UNCHANGED <<working, dead, func, installed, started, finished,
                         running>>]_vars
  /\ [][\A c \in Callers :
          (at[c] = "wait_pred" /\ ~working /\ at'[c] # at[c]) =>
             (at'[c] = "wait_unlock" /\ UNCHANGED <<cond, cond_lock>>)]_vars

\* C4 happens: a wait() that slept on cond is woken and reaches its return
C4_Witness ==
  /\ at[Main] = "wait_unlock"
  /\ slept[Main]
  /\ installed >= 1

\* C5: set_work keeps the depth at one job and does not wait for the job
\* it installs.  At most one closure is installed and unfinished; when
\* set_work writes func no closure is outstanding and working is false; when
\* set_work is about to return working is true, the background thread is
\* not asleep on cond, and the return is possible whatever the job does.
C5_SingleJobDepth ==
  /\ Outstanding \in {0, 1}
  /\ started <= installed
  /\ \A c \in Callers :
       /\ at[c] = "set_func" => (~working /\ Outstanding = 0 /\ running = 0)
       /\ at[c] = "set_unlock" =>
            (working /\ Thr \notin cond /\ ENABLED set_work_return(c))

\* C5 happens: set_work has returned for a second job and that job has not
\* finished (it runs asynchronously)
C5_Witness ==
  /\ at[Main] = "idle"
  /\ op[Main] = "none"
  /\ installed = 2
  /\ finished = 1
  /\ working

\* C6: drain-then-die: when the destructor's join has returned, every
\* closure that set_work installed has been run to its end.
C6_DrainThenDie ==
  at[Main] = "destroyed" => finished = installed

(***************************************************************************)
(* Properties of WSIPlatformHeadless.                                      *)
(***************************************************************************)
\* no job is pending or executing on the FrameWorker of slot i
Idle(i) ==
  /\ ~worker_threads[i].working
  /\ worker_threads[i].at \in {"wait", "exited"}
  /\ retired[i] = dispatched[i]

AllIdle == \A i \in Slots : Idle(i)

\* the paths stbi_write_png was called with
WrittenPaths == {x.path : x \in files}

\* wait_threads has waited for every worker and is about to return
Drained == pc = "wait_threads" /\ wi = SwapchainImages

\* the name of the continuous-dump file of frame k < 10, written out
NumberedName(k) ==
  <<png_readback, "_", "0", "0", "0", "0", Digits(k)[1], ".png">>

\* the number of set_work calls end_frame has completed, over all slots
RECURSIVE SumTo(_, _)
SumTo(f, n) == IF n < 0 THEN 0 ELSE f[n] + SumTo(f, n - 1)
TotalDispatched == SumTo(dispatched, SwapchainImages - 1)

\* C1: per-slot FIFO.  From the return of begin_frame until the set_work of
\* the same cycle (the slot is being rendered), the job dispatched by the
\* previous end_frame on the slot has finished: the worker is not working,
\* no job is pending or executing, its fence has been waited and reset, no
\* copy is in flight, the buffer is unmapped and the job's file is written.
C1_PerSlotFIFO ==
  pc \in {"run_frame", "end_frame", "set_work"} =>
    /\ Idle(index)
    /\ pc # "set_work" =>
         /\ readback_fence[index] = NullFence
         /\ gpu[index] = -1
    /\ ~readback_buffers[index].mapped
    /\ worker_threads[index].func.kind # "none" =>
         FuncPath(worker_threads[index].func) \in WrittenPaths

\* C1 happens: a slot is rendered for the second time and its first use
\* dispatched a job
C1_Witness ==
  /\ pc = "run_frame"
  /\ frames >= SwapchainImages
  /\ dispatched[index] >= 1
  /\ retired[index] >= 1

\* C2: a staging buffer is mapped only by the job of its own slot, only
\* after that job waited on (and reset) the slot's fence, and never while a
\* copy into the buffer is submitted and unfinished.
C2_NoMapDuringCopy ==
  /\ \A i \in DOMAIN readback_buffers :
       readback_buffers[i].mapped =>
         /\ gpu[i] = -1
         /\ readback_fence[i] = NullFence
         /\ worker_threads[i].at = "write"
         /\ worker_threads[i].func.index = i
  /\ \A i \in Slots :
       worker_threads[i].at \in {"map", "write"} =>
         /\ worker_threads[i].func.index \in DOMAIN readback_buffers
         /\ gpu[worker_threads[i].func.index] = -1
         /\ readback_fence[worker_threads[i].func.index] = NullFence

\* C2 happens: the buffer of a slot is mapped by the job of the slot's
\* second use
C2_Witness ==
  \E i \in DOMAIN readback_buffers :
    /\ readback_buffers[i].mapped
    /\ dispatched[i] = 2

\* C7: teardown drains first.  When release_resources is about to clear the
\* vectors, once they are cleared, when main has returned and while the
\* FrameWorkers are destroyed, no job is pending or executing on any worker.
C7_TeardownDrains ==
  /\ (pc = "release_wait" /\ wi = SwapchainImages) => AllIdle
  /\ DOMAIN readback_buffers = {} => AllIdle
  /\ pc \in {"returned", "released", "dtor_dead", "dtor_join", "destroyed"} => AllIdle
  /\ \A i \in Slots : worker_threads[i].at = "exited" => retired[i] = dispatched[i]

\* C7 happens: the platform is destroyed after jobs were dispatched
C7_Witness ==
  /\ pc = "destroyed"
  /\ nwrites >= 2
  /\ DOMAIN readback_buffers = {}

\* the copy of lines 288-295 / 310-317 is submitted on the current slot
CopySubmitted ==
  /\ gpu'[index] = swapchain_images[index]
  /\ gpu[index] = -1
  /\ readback_fence'[index].state = "pending"

\* what an end_frame call does, from the request pending (explicit), the
\* dump being enabled (dump) and a third case (other)
EndFrameDoes(explicit, dump, other) ==
  /\ (pc = "end_frame" /\ pc' # pc) =>
       /\ (explicit \/ dump) =>
            /\ CopySubmitted
            /\ pc' = "set_work"
            /\ UNCHANGED <<worker_threads, index, frames>>
       /\ other =>
            /\ UNCHANGED <<gpu, readback_fence, worker_threads, next_readback_cb>>
            /\ acquire_semaphore'[index] = release
            /\ acquire_semaphore'[index].kind = "release"
            /\ frames' = frames + 1
  /\ (pc = "set_work" /\ pc' # pc) =>
       /\ worker_threads'[index].working
       /\ \A i \in Slots \ {index} : worker_threads'[i] = worker_threads[i]
       /\ explicit =>
            /\ worker_threads'[index].func = ReadbackFunc(next_readback_cb, index)
            /\ next_readback_cb' = NoCb
       /\ dump =>
            /\ worker_threads'[index].func = DumpFunc(frames, index)
            /\ UNCHANGED next_readback_cb
       /\ frames' = frames + 1

\* C8 as stated: every end_frame call takes exactly one of the three
\* actions, chosen by the pending request and the dump setting alone.
C8_Original ==
  [][EndFrameDoes(next_readback_cb.set,
                  ~next_readback_cb.set /\ png_readback # "",
                  ~next_readback_cb.set /\ png_readback = "")]_vars

\* C8 amended: every end_frame call that gets a valid release semaphore
\* takes exactly one of the three actions, in priority order explicit, dump,
\* record the release semaphore; an end_frame call that gets no valid
\* release semaphore takes none of them (no copy, no job, nothing stored,
\* the request stays pending) and only advances index and frames.
C8_ExactlyOneAction ==
  /\ [][EndFrameDoes(ReleaseValid /\ next_readback_cb.set,
                     ReleaseValid /\ ~next_readback_cb.set /\ png_readback # "",
                     ReleaseValid /\ ~next_readback_cb.set /\ png_readback = "")]_vars
  /\ [][(pc = "end_frame" /\ pc' # pc /\ ~ReleaseValid) =>
          /\ UNCHANGED <<gpu, readback_fence, worker_threads,
                         next_readback_cb, acquire_semaphore>>
          /\ frames' = frames + 1]_vars

\* C8 happens: with the dump enabled an explicit request was pending and the
\* explicit job, not the dump job, was dispatched
C8_Witness ==
  /\ png_readback # ""
  /\ \E i \in Slots :
       /\ worker_threads[i].working
       /\ worker_threads[i].func.kind = "readback"

\* the frames whose pixels were written to an explicit path
ExplicitFrames == {x.data : x \in {y \in files : y.path \in {<<p>> : p \in Paths}}}

\* a run with the dump enabled and exactly one set_next_readback call, whose
\* job has been dispatched and has run, after a wait_threads
OneRequestRun ==
  /\ Drained
  /\ png_readback # ""
  /\ readback_calls = 1
  /\ ExplicitFrames # {}

\* the files of a run in which frame f was read back explicitly and the
\* frames in dumped were dumped
OneShotFiles(f, dumped) ==
  /\ ~next_readback_cb.set
  /\ ExplicitFrames = {f}
  /\ NumberedName(f) \notin WrittenPaths
  /\ \A g \in dumped \ {f} : [path |-> NumberedName(g), data |-> g] \in files
  /\ nwrites = Cardinality(files)

DumpRun ==
  /\ Drained
  /\ png_readback # ""
  /\ readback_calls = 0

\* the dumps of the frames in dumped, and nothing else, were dispatched and
\* written, once each, each file holding the pixels of its frame
DumpFiles(dumped) ==
  /\ TotalDispatched = Cardinality(dumped)
  /\ files = {[path |-> NumberedName(k), data |-> k] : k \in dumped}
  /\ nwrites = Cardinality(dumped)
  /\ AllIdle

EndFrameReturns == pc \in {"end_frame", "set_work"} /\ pc' = "idle"

\* C11: index = frames mod SwapchainImages in every reachable state; every
\* end_frame call, whatever it did (explicit job, dump job, release
\* semaphore recorded, nothing), adds one to frames and moves index to the
\* next slot round-robin, and nothing else changes either of them, so after
\* k end_frame calls frames = k and index = k mod SwapchainImages; the slot
\* begin_frame addressed is the slot the end_frame of the same cycle
\* addresses.
C11_IndexFollowsFrames ==
  /\ [](/\ index = frames % SwapchainImages
        /\ index \in Slots
        /\ pc \in {"begin_wait", "run_frame", "end_frame", "set_work"} =>
             external_frame.index = index)
  /\ [][IF EndFrameReturns
          THEN /\ frames' = frames + 1
               /\ index' = (index + 1) % SwapchainImages
          ELSE UNCHANGED <<frames, index>>]_vars

\* C11 happens: the ring wrapped around, after end_frame calls of which
\* some dispatched a job and some got no release semaphore
C11_Witness ==
  /\ pc = "end_frame"
  /\ frames = SwapchainImages
  /\ index = 0
  /\ TotalDispatched >= 1
  /\ Cardinality(had_release) < frames

(***************************************************************************)
(* Properties of main.                                                     *)
(***************************************************************************)
\* C12: with a frame budget F >= 1 the run is one warm-up cycle, which is
\* not counted, and exactly F timed cycles: when the timed loop has ended
\* and the report is made, rendered_frames = F and the frame counter is
\* F + 1.
C12_FrameBudget ==
  (main_pc = "report" /\ args.max_frames >= 1) =>
    /\ rendered_frames = args.max_frames
    /\ frames = args.max_frames + 1

\* main has returned 0 from a run that got through its setup
RunCompleted == main_pc = "exited" /\ setup = "ok"

\* the frame of the last begin/render/end cycle
LastFrame == frames - 1

\* the reference file holds the pixels of the last cycle, written by the job
\* of the slot rendered in that cycle, and is the only explicit file
ReferenceWritten ==
  /\ [path |-> <<args.png_reference_path>>, data |-> LastFrame] \in files
  /\ ExplicitFrames = {LastFrame}
  /\ worker_threads[LastFrame % SwapchainImages].func =
       ReadbackFunc(Cb(args.png_reference_path), LastFrame % SwapchainImages)
  /\ ~next_readback_cb.set

\* set_next_readback is called once, after the timed loop, and no explicit
\* readback is dispatched or written before the cycle that follows it
ReferenceRequestedLast ==
  /\ readback_calls =
       IF main_pc \in {"reference_frame", "final_wait", "exited"}
          /\ setup = "ok" /\ args.png_reference_path # ""
         THEN 1 ELSE 0
  /\ main_pc \notin {"reference_frame", "final_wait", "exited"} =>
       /\ ~next_readback_cb.set
       /\ ExplicitFrames = {}
       /\ \A i \in Slots : worker_threads[i].func.kind # "readback"

OtherSlotBusy == \E j \in Slots \ {index} : worker_threads[j].working

\* C14: the driving thread is suspended on a worker only inside begin_frame
\* and only on the worker of the current slot.  When end_frame reaches
\* set_work the worker of the slot is idle, so the wait() inside set_work
\* returns at once; run_frame and both parts of end_frame can always be
\* taken, and begin_frame's wait returns as soon as the worker of its own
\* slot is idle, whatever is outstanding on the other slots.
C14_BlocksOnlyInBeginFrame ==
  /\ pc = "set_work" =>
       /\ wait(index)
       /\ ENABLED end_frame_set_work
  /\ pc = "end_frame" => ENABLED end_frame
  /\ pc = "run_frame" => ENABLED run_frame
  /\ (pc = "begin_wait" /\ wait(index)) => ENABLED begin_frame_wait

\* C14 happens: end_frame dispatches a job on a slot that had a job before,
\* while the job of another slot is still outstanding
C14_Witness ==
  /\ pc = "set_work"
  /\ dispatched[index] >= 1
  /\ OtherSlotBusy

\* the optional members of the stat report
CounterMembers == {"gpuCycles", "bandwidthRead", "bandwidthWrite"}

\* the report has been made
Reported == DOMAIN doc # {}

\* value is delta divided by n, as unsigned division gives it
Quotient(value, delta, n) ==
  /\ value * n <= delta
  /\ delta < (value + 1) * n

\* C15: the stat report has the members gpuCycles, bandwidthRead and
\* bandwidthWrite exactly when both get_counters calls (before and after the
\* timed loop) returned true, each being end minus start divided by
\* rendered_frames.  When setup_hw_counter_lib was not called or failed
\* (library, symbol, interface, handle) there is no handle, get_counters
\* returns false without a wait_sample call, the members are absent, and
\* the failure does not end the run.
C15_CounterMembers ==
  /\ Reported =>
       /\ (has_start_counters /\ has_end_counters) => CounterMembers \subseteq DOMAIN doc
       /\ ~(has_start_counters /\ has_end_counters) => CounterMembers \cap DOMAIN doc = {}
       /\ CounterMembers \subseteq DOMAIN doc =>
            /\ rendered_frames > 0
            /\ Quotient(doc.gpuCycles,
                        end_counter.gpu_cycles - start_counter.gpu_cycles,
                        rendered_frames)
            /\ Quotient(doc.bandwidthRead,
                        end_counter.bandwidth_read - start_counter.bandwidth_read,
                        rendered_frames)
            /\ Quotient(doc.bandwidthWrite,
                        end_counter.bandwidth_write - start_counter.bandwidth_write,
                        rendered_frames)
  /\ (has_start_counters \/ has_end_counters) => (hw_counter_handle /\ samples >= 1)
  /\ hw_setup # "ok" =>
       /\ ~hw_counter_handle
       /\ samples = 0
       /\ ~has_start_counters
       /\ ~has_end_counters
       /\ CounterMembers \cap DOMAIN doc = {}
  /\ (hw_setup \notin {"none", "ok"} /\ main_pc = "exited") =>
       /\ setup \in {"wsi", "ok"}
       /\ setup = "ok" => exit_code = "0"

\* C15 happens: both samples succeeded and the report of a run of two timed
\* frames has the three members
C15_Witness ==
  /\ Reported
  /\ CounterMembers \subseteq DOMAIN doc
  /\ rendered_frames = 2
  /\ doc.gpuCycles = 6
  /\ main_pc = "exited"

\* what stops main's setup: argc < 1, the argument parser, application
\* creation, the Vulkan loader in the platform constructor, init_wsi
SetupFailures == {"argc", "parse", "app", "loader", "wsi"}

\* C16: the process ends with exit code 1 when its setup failed (argument
\* parsing, application creation, Vulkan loader initialisation in the
\* platform constructor, WSI initialisation) and with exit code 0 in every
\* other run, --help and runs whose optional features failed to load
\* included.
C16_ExitCodes ==
  main_pc = "exited" =>
    exit_code = IF setup \in SetupFailures THEN "1" ELSE "0"

(***************************************************************************)
(* Properties of the alpha fix-up.                                         *)
(***************************************************************************)
\* the high byte (alpha) and the low 24 bits (RGB) of a word
HighByte(p) == SubSeq(p, 1, 8)
Low24(p) == SubSeq(p, 9, WordBits)

\* pixel number i (from 1) has been through the fix-up
FixedUp(i) == passes >= 1 \/ i <= fix_i

\* C17: the fix-up replaces every pixel p by p OR 0xFF000000: a pixel the
\* loop has passed has the high byte 0xFF and the low 24 bits it was copied
\* with, a pixel it has not reached is as copied, and when the loop has
\* ended this holds of every one of the width * height pixels; running the
\* loop over the buffer once more leaves every pixel as the first run left
\* it.
C17_AlphaFixup ==
  /\ Len(ptr) = width * height
  /\ \A i \in 1 .. Len(ptr) :
       IF FixedUp(i)
         THEN /\ HighByte(ptr[i]) = <<1, 1, 1, 1, 1, 1, 1, 1>>
              /\ Low24(ptr[i]) = Low24(copied[i])
         ELSE ptr[i] = copied[i]
  /\ passes >= 1 =>
       \A i \in 1 .. (width * height) :
         ptr[i] = [k \in 1 .. WordBits |-> IF k <= 8 THEN 1 ELSE copied[i][k]]

\* C17 happens: the loop ran twice over a buffer of several pixels, one
\* copied with alpha 0 and colour, one with alpha 0x7F
C17_Witness ==
  /\ passes = 2
  /\ width * height >= 2
  /\ \E i \in 1 .. Len(ptr) : copied[i] = Word(0, 18, 52, 86)
  /\ \E i \in 1 .. Len(ptr) : HighByte(copied[i]) = ByteBits(127)


\* C18 (refuted on the code): "when two threads wait on the same worker and
\* its job finishes, both of them return from wait()".  If every waiter
\* always returned, no run could come to rest with the job finished and a
\* waiter still asleep on the condition variable: here the worker is idle
\* (working is false), its thread sleeps waiting for new work, every other
\* caller has returned, the mutex is free, and one caller of wait() is still
\* in cond's wait set, where only an unrelated later notification or a
\* spurious wake-up can release it.
C18_AllWaitersReturn ==
  \A c \in DOMAIN op :
    ~ /\ op[c] = "wait"
      /\ c \in cond
      /\ ~working
      /\ installed > 0
      /\ finished = installed
      /\ cond_lock = NoThread
      /\ at[Thr] = "loop_sleep"
      /\ \A d \in DOMAIN op \ {c} : at[d] = "idle"

\* the position at which a caller writes func (line 85), the positions at
\* which the worker thread tests and calls it (lines 105-106), and the
\* positions at which a thread reads or writes working or dead
FuncWriteAt == "set_func"
FuncReadAts == {"loop_func", "in_func"}
FlagAts == {"wait_pred", "set_working", "dtor_dead",
            "loop_pred", "loop_dead", "loop_clear"}

\* C19: with one thread calling set_work, func is written only while working
\* is false and tested or called by the worker thread only while working is
\* true, so the write never overlaps the test or the call; and a thread that
\* is about to read or write working or dead holds the mutex.
C19_FuncOutsideLockIsSafe ==
  /\ \A c \in Callers :
       at[c] = FuncWriteAt => ~working /\ at[Thr] \notin FuncReadAts
  /\ at[Thr] \in FuncReadAts => working
  /\ \A t \in Threads : at[t] \in FlagAts => cond_lock = t

\* set_work had to sleep in its wait() while the first job ran, and is now
\* about to overwrite func with the second closure
C19_Witness ==
  /\ at[Main] = FuncWriteAt
  /\ slept[Main]
  /\ installed = 1
  /\ finished = 1

\* the driving thread is between begin_frame's hand-over and end_frame's
\* store, and what begin_frame handed to the renderer
InFrame == pc \in {"begin_wait", "run_frame", "end_frame"}
Handed == external_frame.semaphore
\* the frame that used the current slot before this one
PreviousOnSlot == frames - SwapchainImages

\* C20: after begin_frame the semaphore entry of the current slot is empty;
\* begin_frame hands over exactly what the end_frame of the previous frame on
\* this slot stored (the copy's signal semaphore or the release semaphore:
\* always the copy's when every frame is dumped, the copy's only if a
\* readback was requested or frames are dumped; nothing when that frame had
\* no valid release semaphore or the slot is used for the first time); and an
\* entry that is still stored belongs to the last frame on its slot, so no
\* begin_frame of another slot or a later round hands it over.
C20_HandOffProtocol ==
  /\ InFrame => acquire_semaphore[index] = NullSemaphore
  /\ InFrame =>
       /\ external_frame.index = index
       /\ IF PreviousOnSlot \in had_release
            THEN /\ Handed.frame = PreviousOnSlot
                 /\ Handed.kind \in {"copy", "release"}
                 /\ png_readback # "" => Handed.kind = "copy"
                 /\ Handed.kind = "copy" =>
                      png_readback # "" \/ readback_calls > 0
            ELSE Handed = NullSemaphore
  /\ \A i \in DOMAIN acquire_semaphore :
       acquire_semaphore[i] # NullSemaphore =>
         /\ acquire_semaphore[i].frame % SwapchainImages = i
         /\ acquire_semaphore[i].frame \in had_release
         /\ acquire_semaphore[i].frame >= PreviousOnSlot
         /\ acquire_semaphore[i].frame <= frames

\* the second round begins: begin_frame hands the renderer the signal
\* semaphore of the copy that the first frame on this slot issued
C20_Witness ==
  /\ pc = "begin_wait"
  /\ frames = SwapchainImages
  /\ Handed = [kind |-> "copy", frame |-> PreviousOnSlot]

\* a step that is end_frame called without a valid release semaphore
EndFrameWithoutRelease == pc = "end_frame" /\ pc' # pc /\ ~ReleaseValid

\* C21: an end_frame call that gets no valid release semaphore issues no
\* copy, dispatches no job, leaves every stored semaphore and the pending
\* explicit request as they are, and still advances index and frames; the
\* request is cleared only by an end_frame that has a valid release semaphore
\* and hands it to the worker of its slot; so no more jobs are ever
\* dispatched than frames had a valid release semaphore.
C21_NoReleaseNoEffect ==
  /\ [][EndFrameWithoutRelease =>
          /\ UNCHANGED <<gpu, readback_fence, dispatched, worker_threads,
                         acquire_semaphore, next_readback_cb, had_release>>
          /\ index' = (index + 1) % SwapchainImages
          /\ frames' = frames + 1
          /\ pc' = "idle"]_vars
  /\ [][(next_readback_cb.set /\ ~next_readback_cb'.set) =>
          /\ ReleaseValid
          /\ frames \in had_release
          /\ worker_threads'[index].func = ReadbackFunc(next_readback_cb, index)]_vars
  /\ [](TotalDispatched <= Cardinality(had_release))

\* a frame has ended without a valid release semaphore while an explicit
\* request was pending: nothing was dispatched and the request still pends
C21_Witness ==
  /\ pc = "idle"
  /\ frames = 1
  /\ had_release = {}
  /\ next_readback_cb.set
  /\ TotalDispatched = 0

\* the job that the worker of slot i holds, and a file written to one of the
\* explicitly requested paths
JobOf(i) == worker_threads[i].func
ExplicitFile(x) == x.path \in {<<p>> : p \in RequestPaths}

\* C22: a dispatched job uses the path, slot and frame number it captured at
\* dispatch.  While a worker is working its closure does not change, whatever
\* set_next_readback and the frame cycle do meanwhile; the file a job writes
\* has the captured path and holds the frame that was on the job's own slot
\* when it was dispatched; every write makes a file of its own, so when all
\* workers are idle there are as many files as jobs were dispatched.
C22_JobsKeepTheirCaptures ==
  /\ [][\A i \in Slots :
          (worker_threads[i].working /\ worker_threads'[i].working) =>
            JobOf(i)' = JobOf(i)]_vars
  /\ [][\A i \in Slots :
          (worker_threads[i].at = "write" /\ worker_threads'[i].at = "done") =>
            /\ JobOf(i).index = i
            /\ JobOf(i).kind = "dump" => JobOf(i).frame = swapchain_images[i]
            /\ files' = files \cup {[path |-> FuncPath(JobOf(i)),
                                     data |-> swapchain_images[i]]}]_vars
  /\ [](Cardinality(files) = nwrites)
  /\ [](\A x \in files :
          /\ x.data \in had_release
          /\ ~ExplicitFile(x) => x.path = DumpPath(png_readback, x.data))
  /\ [](AllIdle => Cardinality(files) = TotalDispatched)

\* two explicit requests for different paths are being served at the same
\* time on two different slots, and the frame cycle has moved on to a third
C22_Witness ==
  \E i, j \in Slots :
    /\ i # j
    /\ index \notin {i, j}
    /\ worker_threads[i].working
    /\ worker_threads[j].working
    /\ JobOf(i).kind = "readback"
    /\ JobOf(j).kind = "readback"
    /\ JobOf(i).path # JobOf(j).path

\* n rounds of Paused, Stopped
RECURSIVE Rounds(_)
Rounds(n) == IF n = 0 THEN <<>> ELSE <<"Paused", "Stopped">> \o Rounds(n - 1)
Constructed == <<"Stopped", "Paused", "Running">>

\* C23: a constructor that completes has published Stopped, Paused, Running
\* in this order; every release_resources and every destructor publishes
\* Paused, then Stopped; an event is enqueued only after the latched events
\* were removed, so at most one is latched at any time: Running from the end
\* of the constructor to the start of a release, Stopped whenever a release
\* or the destructor has completed.
C23_LifecycleOrder ==
  /\ [](Cardinality(latched) <= 1)
  /\ [][latched' # latched /\ latched' # {} => latched = {}]_vars
  /\ [](life_pc = "alive" => published = Constructed /\ latched = {"Running"})
  /\ [](life_pc = "released" =>
          /\ published = Constructed \o Rounds(releases)
          /\ latched = {"Stopped"})
  /\ [](life_pc = "none" /\ published # <<>> =>
          /\ published = Constructed \o Rounds(releases)
          /\ releases >= 1
          /\ latched = {"Stopped"})
  /\ [](life_pc \in {"ctor", "release", "dtor"} =>
          \E n \in 0 .. 3 :
            /\ n = (step - 1) \div 2
            /\ published =
                 (IF life_pc = "ctor" THEN <<>>
                  ELSE Constructed \o Rounds(releases - 1))
                 \o SubSeq(LifecycleScript(life_pc), 1, n))

\* the second platform of the process, a custom-surface one, has been
\* constructed and destroyed
C23_Witness ==
  /\ kind = "custom"
  /\ platforms = 2
  /\ life_pc = "none"
  /\ releases = 1
  /\ published = Constructed \o Rounds(1)
  /\ latched = {"Stopped"}

\* application_main has returned, and how
Returned == custom_pc = "returned"
LeftLoop == Returned /\ custom_exit.why \in {"poll", "frames"}
Parsed == custom_pc \notin {"start"} /\ custom_exit.why \notin {"parse", "help"}

\* C24: without --library application_main returns 1 and never calls
\* create_application; once the loop is entered, --frames n > 0 lets it run
\* at most n frames, exactly n unless a poll fails, and it then returns 0;
\* with n = 0 only a failing poll ends the loop; the extension list is
\* VK_KHR_surface alone when the extension symbol is missing, which does not
\* end the run, and the surface is VK_NULL_HANDLE when the creation symbol
\* is missing or fails.
C24_CustomSurfaceDriver ==
  /\ (Parsed /\ custom_args.library = "") =>
       /\ app = "none"
       /\ Returned => custom_exit = [code |-> "1", why |-> "library"]
  /\ (Parsed /\ custom_args.frames > 0) =>
       /\ run_frames <= custom_args.frames
       /\ run_frames = custom_args.frames => custom_pc \notin {"poll", "run_frame"}
  /\ LeftLoop =>
       /\ custom_exit.code = "0"
       /\ custom_exit.why = "frames" <=>
            (custom_args.frames > 0 /\ run_frames = custom_args.frames)
       /\ custom_args.frames = 0 => custom_exit.why = "poll"
  /\ custom_pc \in {"surface", "wsi_done", "poll", "run_frame"} \/ LeftLoop =>
       /\ extensions[1] = "VK_KHR_surface"
       /\ Len(extensions) = IF library.extension THEN 2 ELSE 1
  /\ custom_pc \in {"wsi_done", "poll", "run_frame"} \/ LeftLoop =>
       (surface = VK_NULL_HANDLE <=> library.create \in {"missing", "fails"})

\* --frames 2 was given, the library has no extension symbol, both polls
\* succeeded and application_main has left the loop after two frames
C24_Witness ==
  /\ LeftLoop
  /\ custom_args.frames = 2
  /\ run_frames = 2
  /\ custom_exit = [code |-> "0", why |-> "frames"]
  /\ ~library.extension
  /\ extensions = <<"VK_KHR_surface">>

====
